---------------------------- MODULE Spec2Model ----------------------------
(***************************************************************************)
(* Typed-expression construction layer (src/lang/expr_operator.cc).        *)
(*                                                                         *)
(* Expressions are immutable trees; every factory function of the file is  *)
(* an operator from operand expressions to a new expression.  A fatal      *)
(* error (CHECK / LOG(FATAL)) is the distinguished expression Fatal, which *)
(* every later step of the same call propagates.                           *)
(*                                                                         *)
(* Integer literal payloads are 64-bit machine words (int64_t / uint64_t), *)
(* kept as NLimbs limbs of LimbBits bits, least significant first, so that *)
(* two's-complement wrap-around is what the arithmetic computes.           *)
(* Floating literal payloads are IEEE 754 doubles: a sign bit and a        *)
(* mantissa times a power of two, an infinity or a NaN; their arithmetic   *)
(* rounds to the nearest double.                                           *)
(***************************************************************************)
EXTENDS Integers, Sequences, FiniteSets, TLC

VARIABLES
    call,   \* the factory function last called, "idle" between calls
    a, b,   \* its operand expressions
    c,      \* the condition operand of if_then_else
    t,      \* its type operand
    ra, rb, \* its result; match_types leaves the promoted pair in ra, rb
    ub,     \* what this build does with a conversion, division or shift
            \* the C++ standard leaves undefined
    pc,     \* the position inside a binary factory followed step by step
    out     \* there, the answer of the fold and then the expression returned

vars == <<call, a, b, c, t, ra, rb, ub, pc, out>>

---------------------------------------------------------------------------
(* Bounds of the checked instance.                                         *)

\* widest vector used for operands is 2 * MaxLanes lanes
MaxLanes == 2

\* integer literals offered as operands range over -MaxLit .. MaxLit
MaxLit == 3

---------------------------------------------------------------------------
(* 64-bit words                                                            *)

LimbBits == 8

NLimbs == 8

Base == 256

RECURSIVE Pow2(_)
Pow2(n) == IF n = 0 THEN 1 ELSE 2 * Pow2(n - 1)

RECURSIVE NatLimbs(_, _)
NatLimbs(n, k) ==
    IF k = 0 THEN <<>> ELSE <<n % Base>> \o NatLimbs(n \div Base, k - 1)

\* bits of an int64_t or uint64_t
WordBits == LimbBits * NLimbs

WZero == <<0, 0, 0, 0, 0, 0, 0, 0>>

WOne == <<1, 0, 0, 0, 0, 0, 0, 0>>

WNot(w) == [i \in 1..NLimbs |-> (Base - 1) - w[i]]

RECURSIVE AddLimbs(_, _, _, _)
AddLimbs(x, y, i, carry) ==
    IF i > NLimbs THEN <<>>
    ELSE LET s == x[i] + y[i] + carry
         IN  <<s % Base>> \o AddLimbs(x, y, i + 1, s \div Base)

\* x + y modulo 2^64
WAdd(x, y) == AddLimbs(x, y, 1, 0)

\* -x modulo 2^64
WNeg(x) == WAdd(WNot(x), WOne)

\* x - y modulo 2^64
WSub(x, y) == WAdd(x, WNeg(y))

\* limb i of x, zero outside the word
Limb(x, i) == IF i \in 1..NLimbs THEN x[i] ELSE 0

\* x * 2^k modulo 2^64 for k >= 0: whole limbs first, then the bits within
\* a limb
WTimesPow2(x, k) ==
    LET q == k \div LimbBits
        m == Pow2(k % LimbBits)
    IN  [i \in 1..NLimbs |->
            ((Limb(x, i - q) * m) % Base) + ((Limb(x, i - q - 1) * m) \div Base)]

\* the C++ x << k on a 64-bit operand.  A count outside 0..63 is undefined:
\* a build whose shift instruction takes the count modulo 64 (x86-64)
\* shifts by k mod 64, so that 1 << -1 is 2^63; a build whose shift moves
\* every bit out for a count that large yields zero.
WShl(x, k) ==
    IF k \in 0..(WordBits - 1) THEN WTimesPow2(x, k)
    ELSE IF ub = "indefinite" THEN WTimesPow2(x, k % WordBits)
    ELSE WZero

RECURSIVE MulLimb(_, _, _, _)
MulLimb(x, d, i, carry) ==
    IF i > NLimbs THEN <<>>
    ELSE LET s == x[i] * d + carry
         IN  <<s % Base>> \o MulLimb(x, d, i + 1, s \div Base)

RECURSIVE MulAcc(_, _, _)
MulAcc(x, y, i) ==
    IF i > NLimbs THEN WZero
    ELSE WAdd(WTimesPow2(MulLimb(x, y[i], 1, 0), LimbBits * (i - 1)),
              MulAcc(x, y, i + 1))

\* x * y modulo 2^64
WMul(x, y) == MulAcc(x, y, 1)

\* sign bit of the word read as int64_t
WIsNeg(w) == w[NLimbs] >= Base \div 2

RECURSIVE LtLimbs(_, _, _)
LtLimbs(x, y, i) ==
    IF i = 0 THEN FALSE
    ELSE IF x[i] # y[i] THEN x[i] < y[i]
    ELSE LtLimbs(x, y, i - 1)

\* x < y as uint64_t
WLtU(x, y) == LtLimbs(x, y, NLimbs)

\* x < y as int64_t
WLtS(x, y) == IF WIsNeg(x) # WIsNeg(y) THEN WIsNeg(x) ELSE WLtU(x, y)

\* the int64_t of a small integer
WFromInt(n) == IF n >= 0 THEN NatLimbs(n, NLimbs) ELSE WNeg(NatLimbs(-n, NLimbs))

\* |w| of the word read as int64_t, as a uint64_t (2^63 for INT64_MIN)
WAbsWord(w) == IF WIsNeg(w) THEN WNeg(w) ELSE w

\* std::numeric_limits<int64_t>::max(): 2^63 - 1
INT64_MAX == <<255, 255, 255, 255, 255, 255, 255, 127>>

\* std::numeric_limits<int64_t>::min(): the sign bit alone
INT64_MIN == <<0, 0, 0, 0, 0, 0, 0, 128>>

\* std::numeric_limits<uint64_t>::max(): 2^64 - 1
UINT64_MAX == <<255, 255, 255, 255, 255, 255, 255, 255>>

\* bit i of the word, bit 0 the least significant
WBit(w, i) == (w[(i \div LimbBits) + 1] \div Pow2(i % LimbBits)) % 2

\* the word with its bit i, found clear, set
WSetBit(w, i) == [w EXCEPT ![(i \div LimbBits) + 1] = @ + Pow2(i % LimbBits)]

\* index of the most significant limb that is not zero, 0 for the zero word
RECURSIVE TopLimb(_, _)
TopLimb(m, i) == IF i = 0 \/ m[i] # 0 THEN i ELSE TopLimb(m, i - 1)

\* n / d and n % d on uint64_t for d # 0, by long division from the top
\* bit: q and r are the quotient and remainder of the bits of n above bit
\* i, and DivBits brings in the bits from i - 1 down to lo.  The remainder
\* stays below d, so that with d <= 2^63 its double never overflows.
RECURSIVE DivBits(_, _, _, _, _, _)
RECURSIVE DivBit(_, _, _, _, _, _)
DivBits(n, d, i, lo, q, r) ==
    IF i = lo THEN <<q, r>>
    ELSE DivBit(n, d, i - 1, lo, q, AddLimbs(r, r, 1, WBit(n, i - 1)))

DivBit(n, d, i, lo, q, r) ==
    IF WLtU(r, d) THEN DivBits(n, d, i, lo, q, r)
    ELSE DivBits(n, d, i, lo, WSetBit(q, i), WSub(r, d))

\* the long division limb by limb: qr is the quotient and remainder of the
\* limbs of n above limb j
RECURSIVE DivLimbs(_, _, _, _)
DivLimbs(n, d, j, qr) ==
    IF j = 0 THEN qr
    ELSE DivLimbs(n, d, j - 1,
                  DivBits(n, d, LimbBits * j, LimbBits * (j - 1), qr[1], qr[2]))

\* <<n / d, n % d>> on uint64_t; the limbs above the top limb of n are zero
\* and leave quotient and remainder zero
WDivMod(n, d) == DivLimbs(n, d, TopLimb(n, NLimbs), <<WZero, WZero>>)

\* number of significant bits of a limb
RECURSIVE BitsOf(_)
BitsOf(n) == IF n = 0 THEN 0 ELSE 1 + BitsOf(n \div 2)

---------------------------------------------------------------------------
(* Natural numbers of any size                                             *)
(* A natural is the sequence of its limbs, least significant first, with   *)
(* no zero limb at the top; zero is the empty sequence.                    *)

NOne == <<1>>

\* the sequence without the zero limbs at its top
RECURSIVE NNorm(_)
NNorm(s) ==
    IF Len(s) = 0 THEN <<>>
    ELSE IF s[Len(s)] # 0 THEN SubSeq(s, 1, Len(s))
    ELSE NNorm(SubSeq(s, 1, Len(s) - 1))

\* limb i of x, zero beyond its top
NLimb(x, i) == IF i >= 1 /\ i <= Len(x) THEN x[i] ELSE 0

\* the natural of a number n >= 0
RECURSIVE NFromInt(_)
NFromInt(n) == IF n = 0 THEN <<>> ELSE <<n % Base>> \o NFromInt(n \div Base)

\* the natural of a word read as uint64_t, and the word of the low 64 bits
\* of a natural
NFromWord(w) == NNorm(w)

WFromN(x) == [i \in 1..NLimbs |-> NLimb(x, i)]

\* number of significant bits
NBitLen(x) ==
    IF Len(x) = 0 THEN 0 ELSE LimbBits * (Len(x) - 1) + BitsOf(x[Len(x)])

\* bit i of x, bit 0 the least significant
NBit(x, i) == (NLimb(x, (i \div LimbBits) + 1) \div Pow2(i % LimbBits)) % 2

\* the k low bits of x are all zero
NLowZero(x, k) ==
    \A i \in 1..Len(x) :
        IF LimbBits * i <= k THEN x[i] = 0
        ELSE IF LimbBits * (i - 1) >= k THEN TRUE
        ELSE x[i] % Pow2(k - LimbBits * (i - 1)) = 0

\* number of zero bits below the lowest set bit of a limb that is not zero
RECURSIVE LowZeros(_)
LowZeros(n) == IF n % 2 = 1 THEN 0 ELSE 1 + LowZeros(n \div 2)

\* number of zero bits below the lowest set bit of x # 0, from limb i on
RECURSIVE NTrailingZerosFrom(_, _)
NTrailingZerosFrom(x, i) ==
    IF x[i] # 0 THEN LimbBits * (i - 1) + LowZeros(x[i])
    ELSE NTrailingZerosFrom(x, i + 1)

NTrailingZeros(x) == NTrailingZerosFrom(x, 1)

\* x < y
RECURSIVE NLtAt(_, _, _)
NLtAt(x, y, i) ==
    IF i = 0 THEN FALSE
    ELSE IF x[i] # y[i] THEN x[i] < y[i]
    ELSE NLtAt(x, y, i - 1)

NLt(x, y) == IF Len(x) # Len(y) THEN Len(x) < Len(y) ELSE NLtAt(x, y, Len(x))

\* x + y + carry, from limb i on
RECURSIVE NAddFrom(_, _, _, _)
RECURSIVE NAddStep(_, _, _, _)
NAddFrom(x, y, i, carry) ==
    IF i > Len(x) /\ i > Len(y) THEN (IF carry = 0 THEN <<>> ELSE <<carry>>)
    ELSE NAddStep(x, y, i, NLimb(x, i) + NLimb(y, i) + carry)

NAddStep(x, y, i, s) == <<s % Base>> \o NAddFrom(x, y, i + 1, s \div Base)

NAdd(x, y) == NAddFrom(x, y, 1, 0)

\* 2 * x
NDouble(x) == NAddFrom(x, x, 1, 0)

\* x - y for x >= y
RECURSIVE NSubFrom(_, _, _, _)
RECURSIVE NSubStep(_, _, _, _)
NSubFrom(x, y, i, borrow) ==
    IF i > Len(x) THEN <<>>
    ELSE NSubStep(x, y, i, x[i] - NLimb(y, i) - borrow)

NSubStep(x, y, i, d) ==
    <<d % Base>> \o NSubFrom(x, y, i + 1, IF d < 0 THEN 1 ELSE 0)

NSub(x, y) == NNorm(NSubFrom(x, y, 1, 0))

\* x * d for a limb d # 0
RECURSIVE NMulLimbFrom(_, _, _, _)
RECURSIVE NMulLimbStep(_, _, _, _)
NMulLimbFrom(x, d, i, carry) ==
    IF i > Len(x) THEN (IF carry = 0 THEN <<>> ELSE <<carry>>)
    ELSE NMulLimbStep(x, d, i, x[i] * d + carry)

NMulLimbStep(x, d, i, s) == <<s % Base>> \o NMulLimbFrom(x, d, i + 1, s \div Base)

\* x * d for a limb d
NMulLimb(x, d) == IF d = 0 THEN <<>> ELSE NMulLimbFrom(x, d, 1, 0)

\* x * Base^q
NShlLimbs(x, q) == IF Len(x) = 0 THEN <<>> ELSE [i \in 1..q |-> 0] \o x

\* x * 2^k
NShl(x, k) == NShlLimbs(NMulLimb(x, Pow2(k % LimbBits)), k \div LimbBits)

\* x * y
RECURSIVE NMulFrom(_, _, _)
NMulFrom(x, y, i) ==
    IF i > Len(y) THEN <<>>
    ELSE NAdd(NShlLimbs(NMulLimb(x, y[i]), i - 1), NMulFrom(x, y, i + 1))

NMul(x, y) == NMulFrom(x, y, 1)

\* x \div Base^q
NShrLimbs(x, q) == IF q >= Len(x) THEN <<>> ELSE SubSeq(x, q + 1, Len(x))

\* x \div 2^m for m below the bits of a limb
NShrBits(x, m) ==
    NNorm([i \in 1..Len(x) |->
              (x[i] \div Pow2(m)) + (NLimb(x, i + 1) % Pow2(m)) * Pow2(LimbBits - m)])

\* x \div 2^k
NShr(x, k) == NShrBits(NShrLimbs(x, k \div LimbBits), k % LimbBits)

---------------------------------------------------------------------------
(* Doubles (IEEE 754 binary64, round to nearest, ties to even)             *)
(* A double is a NaN, an infinity, or the finite number man * 2^exp with   *)
(* the sign bit neg, where man is a natural that is odd (zero, with exp    *)
(* zero, for the two zeros): every double has one such form, so that equal *)
(* records are equal doubles.                                              *)

\* std::numeric_limits<double>::digits
DoubleDigits == 53

\* the exponent of the smallest double above zero, 2^-1074
DoubleMinExp == -1074

\* the doubles are below 2^1024
DoubleMaxTop == 1024

FNaN == [cls |-> "nan", neg |-> FALSE, man |-> <<>>, exp |-> 0]

FInf(neg) == [cls |-> "inf", neg |-> neg, man |-> <<>>, exp |-> 0]

\* +0.0 and -0.0
FSignedZero(neg) == [cls |-> "fin", neg |-> neg, man |-> <<>>, exp |-> 0]

FZero == FSignedZero(FALSE)

\* std::numeric_limits<float>::max() when not neg, lowest() when neg:
\* (2^24 - 1) * 2^104
FFltMax(neg) ==
    [cls |-> "fin", neg |-> neg, man |-> <<255, 255, 255>>, exp |-> 104]

\* std::numeric_limits<double>::max() and lowest(): (2^53 - 1) * 2^971
FDblMax(neg) ==
    [cls |-> "fin", neg |-> neg, man |-> <<255, 255, 255, 255, 255, 255, 31>>,
     exp |-> 971]

FIsNaN(x) == x.cls = "nan"

FIsFinite(x) == x.cls = "fin"

\* a zero of either sign
FIsZero(x) == x.cls = "fin" /\ Len(x.man) = 0

\* the finite double man * 2^e for a natural man # 0 below 2^53 * 2^z, z
\* its trailing zero bits
FStrip(neg, m, e, z) ==
    [cls |-> "fin", neg |-> neg, man |-> NShr(m, z), exp |-> e + z]

\* the double m * 2^e for a natural m that needs no rounding; a magnitude
\* of 2^1024 or more is an infinity
FCanon(neg, m, e) ==
    IF Len(m) = 0 THEN FSignedZero(neg)
    ELSE IF NBitLen(m) + e > DoubleMaxTop THEN FInf(neg)
    ELSE FStrip(neg, m, e, NTrailingZeros(m))

\* the bits a natural of n bits at exponent e loses when stored: those
\* beyond the 53 digits and those below 2^-1074
Larger(m, n) == IF m >= n THEN m ELSE n

DropBits(n, e) == Larger(Larger(n - DoubleDigits, DoubleMinExp - e), 0)

\* the quotient q of a natural by 2^k, rounded to nearest: half is the
\* highest bit lost and rest tells whether anything is lost below it; a
\* tie goes to the even neighbour
RoundedUp(q, half, rest) ==
    IF half = 1 /\ (rest \/ NLimb(q, 1) % 2 = 1) THEN NAdd(q, NOne) ELSE q

FRoundDrop(neg, m, e, rest, k) ==
    IF k = 0 THEN FCanon(neg, m, e)
    ELSE FCanon(neg,
                RoundedUp(NShr(m, k), NBit(m, k - 1), rest \/ ~NLowZero(m, k - 1)),
                e + k)

\* the double nearest to (m + s) * 2^e with the sign bit neg, where m is a
\* natural and s is 0, or, when rest holds, some amount above 0 and below
\* 1 (m has 55 bits or more then)
FRound(neg, m, e, rest) == FRoundDrop(neg, m, e, rest, DropBits(NBitLen(m), e))

\* the double of h halves
FFin(h) == FRound(h < 0, NFromInt(IF h < 0 THEN -h ELSE h), -1, FALSE)

FOne == FFin(2)

\* the integer of magnitude n, a natural, with the sign bit neg
FInteger(neg, n) == FRound(neg, n, 0, FALSE)

\* static_cast<double>(int64_t)
FFromWord(w) == FInteger(WIsNeg(w), NFromWord(WAbsWord(w)))

\* static_cast<double>(uint64_t)
FFromUWord(w) == FInteger(FALSE, NFromWord(w))

\* a finite double that is not zero lies in [2^(FTop - 1), 2^FTop)
FTop(x) == x.exp + NBitLen(x.man)

\* |x| < |y| for two doubles that are not NaN
FMagLt(x, y) ==
    IF x.cls = "inf" THEN FALSE
    ELSE IF y.cls = "inf" THEN TRUE
    ELSE IF FIsZero(y) THEN FALSE
    ELSE IF FIsZero(x) THEN TRUE
    ELSE IF FTop(x) # FTop(y) THEN FTop(x) < FTop(y)
    ELSE IF x.exp >= y.exp THEN NLt(NShl(x.man, x.exp - y.exp), y.man)
    ELSE NLt(x.man, NShl(y.man, y.exp - x.exp))

\* x < y on doubles: false when either is NaN, and for the two zeros
FLt(x, y) ==
    /\ ~FIsNaN(x)
    /\ ~FIsNaN(y)
    /\ ~(FIsZero(x) /\ FIsZero(y))
    /\ IF x.neg # y.neg THEN x.neg
       ELSE IF x.neg THEN FMagLt(y, x) ELSE FMagLt(x, y)

\* x == y on doubles: false when either is NaN, true for the two zeros
FEq(x, y) ==
    /\ ~FIsNaN(x)
    /\ ~FIsNaN(y)
    /\ ((FIsZero(x) /\ FIsZero(y)) \/ x = y)

\* -x: the sign bit flips, also on a zero
FNeg(x) == IF FIsNaN(x) THEN x ELSE [x EXCEPT !.neg = ~x.neg]

\* std::fabs
FAbs(x) == [x EXCEPT !.neg = FALSE]

\* the doubles with no fractional part: exp is the place of the lowest set
\* bit
FIsWhole(x) == x.cls = "fin" /\ x.exp >= 0

\* the integer part of the magnitude of a finite double
FWholeMag(x) ==
    IF x.exp >= 0 THEN NShl(x.man, x.exp) ELSE NShr(x.man, -x.exp)

\* std::floor: the result keeps the operand's sign bit; an integer, an
\* infinity and a NaN are returned as they are
FFloor(x) ==
    IF x.cls # "fin" \/ x.exp >= 0 THEN x
    ELSE IF x.neg THEN FInteger(TRUE, NAdd(FWholeMag(x), NOne))
    ELSE FInteger(FALSE, FWholeMag(x))

\* std::ceil
FCeil(x) ==
    IF x.cls # "fin" \/ x.exp >= 0 THEN x
    ELSE IF x.neg THEN FInteger(TRUE, FWholeMag(x))
    ELSE FInteger(FALSE, NAdd(FWholeMag(x), NOne))

\* std::nearbyint in the default rounding mode: to nearest, ties to even
FNearbyint(x) ==
    IF x.cls # "fin" \/ x.exp >= 0 THEN x
    ELSE FInteger(x.neg,
                  RoundedUp(FWholeMag(x), NBit(x.man, (-x.exp) - 1),
                            ~NLowZero(x.man, (-x.exp) - 1)))

\* bits by which the larger operand of a sum is widened when the smaller
\* one lies wholly below them, and the distance of the exponents from
\* which on it does
GuardBits == DoubleDigits + 3

FarApart == DoubleDigits + GuardBits

\* the sum of two magnitudes at one exponent, each with its sign; equal
\* magnitudes of opposite sign give +0
AddMagnitudes(xneg, xm, yneg, ym, e) ==
    IF xneg = yneg THEN FRound(xneg, NAdd(xm, ym), e, FALSE)
    ELSE IF NLt(xm, ym) THEN FRound(yneg, NSub(ym, xm), e, FALSE)
    ELSE IF NLt(ym, xm) THEN FRound(xneg, NSub(xm, ym), e, FALSE)
    ELSE FZero

\* hi + lo for finite doubles that are not zero, hi.exp >= lo.exp.  Far
\* apart, lo is less than one unit of hi widened by the guard bits and
\* only tells on which side of it the sum lies.
AddAligned(hi, lo) ==
    IF hi.exp - lo.exp > FarApart
    THEN FRound(hi.neg,
                IF hi.neg = lo.neg THEN NShl(hi.man, GuardBits)
                ELSE NSub(NShl(hi.man, GuardBits), NOne),
                hi.exp - GuardBits, TRUE)
    ELSE AddMagnitudes(hi.neg, NShl(hi.man, hi.exp - lo.exp), lo.neg, lo.man,
                       lo.exp)

\* x + y on doubles
FAdd(x, y) ==
    IF FIsNaN(x) \/ FIsNaN(y) THEN FNaN
    ELSE IF x.cls = "inf"
    THEN (IF y.cls = "inf" /\ x.neg # y.neg THEN FNaN ELSE x)
    ELSE IF y.cls = "inf" THEN y
    ELSE IF FIsZero(x)
    THEN (IF FIsZero(y) THEN FSignedZero(x.neg /\ y.neg) ELSE y)
    ELSE IF FIsZero(y) THEN x
    ELSE IF x.exp >= y.exp THEN AddAligned(x, y)
    ELSE AddAligned(y, x)

\* x - y on doubles
FSub(x, y) == FAdd(x, FNeg(y))

\* x * y on doubles
FMul(x, y) ==
    IF FIsNaN(x) \/ FIsNaN(y) THEN FNaN
    ELSE IF x.cls = "inf" \/ y.cls = "inf"
    THEN (IF FIsZero(x) \/ FIsZero(y) THEN FNaN ELSE FInf(x.neg # y.neg))
    ELSE IF FIsZero(x) \/ FIsZero(y) THEN FSignedZero(x.neg # y.neg)
    ELSE FRound(x.neg # y.neg, NMul(x.man, y.man), x.exp + y.exp, FALSE)

\* bits of the quotient of two mantissas: the digits, the bit that decides
\* the rounding and one more, the quotient lying between 1/2 and 2
QuotientBits == DoubleDigits + 3

\* a mantissa, or a remainder below twice a mantissa, as the pair of its
\* high and low halves, the low half of HalfBits bits
HalfBits == (DoubleDigits + 1) \div 2

HalfBase == Pow2(HalfBits)

LowHalf(x) ==
    NLimb(x, 1) + Base * NLimb(x, 2) + (Base * Base) * NLimb(x, 3)
        + (Base * Base * Base) * (NLimb(x, 4) % 8)

HighHalf(x) ==
    (NLimb(x, 4) \div 8) + 32 * NLimb(x, 5) + (32 * Base) * NLimb(x, 6)
        + (32 * Base * Base) * NLimb(x, 7)

Halved(x) == <<HighHalf(x), LowHalf(x)>>

HalvesLt(r, d) == r[1] < d[1] \/ (r[1] = d[1] /\ r[2] < d[2])

\* r - d for r >= d
HalvesSub(r, d) ==
    IF r[2] >= d[2] THEN <<r[1] - d[1], r[2] - d[2]>>
    ELSE <<(r[1] - d[1]) - 1, (r[2] + HalfBase) - d[2]>>

\* 2 * r
HalvesDouble(r) == <<2 * r[1] + ((2 * r[2]) \div HalfBase), (2 * r[2]) % HalfBase>>

\* the quotient bits of r / d from the most significant on, r < 2 * d:
\* k bits of one limb, ql the bits found, the rest in the doubled remainder
RECURSIVE FracBits(_, _, _, _)
FracBits(d, k, ql, r) ==
    IF k = 0 THEN <<ql, r>>
    ELSE IF HalvesLt(r, d) THEN FracBits(d, k - 1, 2 * ql, HalvesDouble(r))
    ELSE FracBits(d, k - 1, 2 * ql + 1, HalvesDouble(HalvesSub(r, d)))

\* the same limb by limb, j limbs to go, q the limbs found
RECURSIVE FracLimbs(_, _, _, _)
RECURSIVE FracNext(_, _, _, _)
FracLimbs(d, j, q, r) ==
    IF j = 0 THEN <<NNorm(q), r # <<0, 0>>>>
    ELSE FracNext(d, j, q, FracBits(d, LimbBits, 0, r))

\* with nothing left the limbs to go are zero
FracNext(d, j, q, lr) ==
    IF lr[2] = <<0, 0>>
    THEN <<NNorm([i \in 1..(j - 1) |-> 0] \o <<lr[1]>> \o q), FALSE>>
    ELSE FracLimbs(d, j - 1, <<lr[1]>> \o q, lr[2])

\* <<the integer part of (n / d) * 2^(QuotientBits - 1), whether something
\* is left>> for two naturals of 53 bits each
FracDiv(n, d) == FracLimbs(Halved(d), QuotientBits \div LimbBits, <<>>, Halved(n))

\* the double of a quotient and its exponent, inexact when something is left
DivRound(neg, qr, e) == FRound(neg, qr[1], e, qr[2])

\* xm * 2^e / ym: both mantissas are widened to 53 bits, by sx and sy bits
DivMantissas(neg, xm, ym, e, sx, sy) ==
    DivRound(neg, FracDiv(NShl(xm, sx), NShl(ym, sy)),
             ((e - sx) + sy) - (QuotientBits - 1))

\* x / y on doubles
FDiv(x, y) ==
    IF FIsNaN(x) \/ FIsNaN(y) THEN FNaN
    ELSE IF x.cls = "inf"
    THEN (IF y.cls = "inf" THEN FNaN ELSE FInf(x.neg # y.neg))
    ELSE IF y.cls = "inf" THEN FSignedZero(x.neg # y.neg)
    ELSE IF FIsZero(y)
    THEN (IF FIsZero(x) THEN FNaN ELSE FInf(x.neg # y.neg))
    ELSE IF FIsZero(x) THEN FSignedZero(x.neg # y.neg)
    ELSE DivMantissas(x.neg # y.neg, x.man, y.man, x.exp - y.exp,
                      DoubleDigits - NBitLen(x.man), DoubleDigits - NBitLen(y.man))

---------------------------------------------------------------------------
(* Numeric type descriptors (DataType)                                     *)

DataType(code, bits, lanes) == [code |-> code, bits |-> bits, lanes |-> lanes]

IntType(bits, lanes) == DataType("int", bits, lanes)

UIntType(bits, lanes) == DataType("uint", bits, lanes)

FloatType(bits, lanes) == DataType("float", bits, lanes)

\* a boolean is the 1-bit unsigned integer
BoolType(lanes) == UIntType(1, lanes)

Handle == DataType("handle", 64, 1)

is_int(dt) == dt.code = "int"

is_uint(dt) == dt.code = "uint"

is_float(dt) == dt.code = "float"

is_bool(dt) == dt.code = "uint" /\ dt.bits = 1

element_of(dt) == [dt EXCEPT !.lanes = 1]

with_lanes(dt, n) == [dt EXCEPT !.lanes = n]

---------------------------------------------------------------------------
(* Expression nodes                                                        *)

Node(op, dt, ival, fval, name, args) ==
    [op |-> op, dtype |-> dt, ival |-> ival, fval |-> fval,
     name |-> name, args |-> args]

\* the outcome of a call aborted by CHECK or LOG(FATAL)
Fatal == Node("FATAL", Handle, WZero, FZero, "", <<>>)

\* PrimExpr(): the undefined expression a declined fold returns
Undef == Node("UNDEF", Handle, WZero, FZero, "", <<>>)

IsFatal(e) == e.op = "FATAL"

defined(e) == e.op # "UNDEF"

AnyFatal(es) == \E i \in DOMAIN es : IsFatal(es[i])

IntImm(dt, w) ==
    IF is_int(dt) /\ dt.lanes = 1
    THEN Node("IntImm", dt, w, FZero, "", <<>>) ELSE Fatal

UIntImm(dt, w) ==
    IF is_uint(dt) /\ dt.lanes = 1
    THEN Node("UIntImm", dt, w, FZero, "", <<>>) ELSE Fatal

FloatImm(dt, f) ==
    IF dt.lanes = 1 THEN Node("FloatImm", dt, WZero, f, "", <<>>) ELSE Fatal

Var(name, dt) == Node("Var", dt, WZero, FZero, name, <<>>)

\* BroadcastNode::make: a scalar repeated over lanes > 1
Broadcast(value, lanes) ==
    IF IsFatal(value) \/ value.dtype.lanes # 1 \/ lanes <= 1 THEN Fatal
    ELSE Node("Broadcast", with_lanes(value.dtype, lanes), WZero, FZero, "",
              <<value>>)

\* CastNode::make: lane counts must agree
CastNode(dt, value) ==
    IF IsFatal(value) \/ dt.lanes # value.dtype.lanes THEN Fatal
    ELSE Node("Cast", dt, WZero, FZero, "", <<value>>)

\* AddNode::make and the other arithmetic nodes: operands of one type
BinaryNode(op, x, y) ==
    IF IsFatal(x) \/ IsFatal(y) \/ x.dtype # y.dtype THEN Fatal
    ELSE Node(op, x.dtype, WZero, FZero, "", <<x, y>>)

\* GTNode::make and the other comparisons: a boolean per lane
CmpNode(op, x, y) ==
    IF IsFatal(x) \/ IsFatal(y) \/ x.dtype # y.dtype THEN Fatal
    ELSE Node(op, BoolType(x.dtype.lanes), WZero, FZero, "", <<x, y>>)

\* SelectNode::make
SelectNode(cond, tv, fv) ==
    IF AnyFatal(<<cond, tv, fv>>) \/ ~is_bool(cond.dtype)
       \/ tv.dtype # fv.dtype
       \/ ~(cond.dtype.lanes = tv.dtype.lanes \/ cond.dtype.lanes = 1)
    THEN Fatal
    ELSE Node("Select", tv.dtype, WZero, FZero, "", <<cond, tv, fv>>)

\* CallNode::make(type, name, args, PureIntrinsic)
CallNode(dt, name, args) ==
    IF AnyFatal(args) THEN Fatal
    ELSE Node("Call", dt, WZero, FZero, name, args)

is_literal(e) == e.op \in {"IntImm", "UIntImm", "FloatImm"}

\* the literal of a scalar integer, unsigned or float type with an int64_t
\* payload: static_cast to the target kind
ConstFromWord(dt, w) ==
    CASE is_int(dt) -> IntImm(dt, w)
      [] is_uint(dt) -> UIntImm(dt, w)
      [] is_float(dt) -> FloatImm(dt, FFromWord(w))

\* the same with a uint64_t payload
ConstFromUWord(dt, w) ==
    CASE is_int(dt) -> IntImm(dt, w)
      [] is_uint(dt) -> UIntImm(dt, w)
      [] is_float(dt) -> FloatImm(dt, FFromUWord(w))

\* the doubles static_cast<int64_t> is defined on: the truncated value is
\* an int64_t
FitsInt64(f) ==
    /\ f.cls = "fin"
    /\ (FTop(f) < WordBits \/ (f.neg /\ FTop(f) = WordBits /\ f.man = NOne))

\* the doubles static_cast<uint64_t> is defined on: above -1, below 2^64
FitsUInt64(f) ==
    /\ f.cls = "fin"
    /\ (IF f.neg THEN FTop(f) <= 0 ELSE FTop(f) <= WordBits)

\* the truncated value of a double that fits, as a word
TruncWord(f) ==
    IF f.neg THEN WNeg(WFromN(FWholeMag(f))) ELSE WFromN(FWholeMag(f))

\* static_cast<int64_t>(double).  Where the truncated value is no int64_t
\* the conversion is undefined, and the build decides: a build whose
\* conversion instruction answers "indefinite" yields INT64_MIN, one whose
\* instruction saturates yields the nearest int64_t, and 0 for a NaN.
DoubleToInt64(f) ==
    IF FitsInt64(f) THEN TruncWord(f)
    ELSE IF ub = "indefinite" THEN INT64_MIN
    ELSE IF FIsNaN(f) THEN WZero
    ELSE IF f.neg THEN INT64_MIN
    ELSE INT64_MAX

\* static_cast<uint64_t>(double).  Where it is undefined, the indefinite
\* build converts a double below 2^63 (and a NaN) as to int64_t and keeps
\* the word, and converts a larger one less 2^63 and flips the top bit; the
\* saturating build yields 0 or UINT64_MAX, and 0 for a NaN.
DoubleToUInt64(f) ==
    IF FitsUInt64(f) THEN TruncWord(f)
    ELSE IF ub = "indefinite"
    THEN IF FIsNaN(f) \/ f.neg
         THEN (IF FitsInt64(f) THEN TruncWord(f) ELSE INT64_MIN)
         ELSE WZero
    ELSE IF FIsNaN(f) \/ f.neg THEN WZero
    ELSE UINT64_MAX

\* the same with a double payload
ConstFromDouble(dt, f) ==
    CASE is_int(dt) -> IntImm(dt, DoubleToInt64(f))
      [] is_uint(dt) -> UIntImm(dt, DoubleToUInt64(f))
      [] is_float(dt) -> FloatImm(dt, f)

\* the scalar literal itself for one lane, else its broadcast
ScalarOrBroadcast(scalar, lanes) ==
    IF lanes = 1 THEN scalar ELSE Broadcast(scalar, lanes)

\* make_const(t, value) with an int64_t value: a scalar literal, broadcast
\* when t is a vector
make_const(dt, w) ==
    ScalarOrBroadcast(ConstFromWord(element_of(dt), w), dt.lanes)

\* make_const(t, value) with a uint64_t value
make_const_uint64(dt, w) ==
    ScalarOrBroadcast(ConstFromUWord(element_of(dt), w), dt.lanes)

\* make_const(t, value) with a double value
make_const_double(dt, f) ==
    ScalarOrBroadcast(ConstFromDouble(element_of(dt), f), dt.lanes)

\* make_zero taking scalar types only, as min_value and max_value do
make_zero_ScalarOnly(dt) == IF dt.lanes > 1 THEN Fatal ELSE make_const(dt, WZero)

\* make_zero(t): the constant 0 of an integer, unsigned or float type
make_zero(dt) == make_const(dt, WZero)

---------------------------------------------------------------------------
(* Type promotion                                                          *)

\* simple cast that only checks if type matches and cast
SimpleCast(dt, value) ==
    IF IsFatal(value) THEN Fatal
    ELSE IF value.dtype = dt THEN value
    ELSE CastNode(dt, value)

\* cast with a scalar target: literals are re-typed, the rest is wrapped
CastScalar(dt, value) ==
    CASE value.op = "IntImm" -> make_const(dt, value.ival)
      [] value.op = "UIntImm" -> make_const_uint64(dt, value.ival)
      [] value.op = "FloatImm" -> make_const_double(dt, value.fval)
      [] OTHER -> CastNode(dt, value)

\* CastUnroll with the element cast of a non-literal lost
CastUnroll_NoElementCast(dt, value) ==
    LET vtype == element_of(dt)
    IN  IF value.dtype # vtype
        THEN CASE value.op = "IntImm" ->
                    Broadcast(make_const(vtype, value.ival), dt.lanes)
               [] value.op = "UIntImm" -> make_const_uint64(dt, value.ival)
               [] value.op = "FloatImm" ->
                    Broadcast(make_const_double(vtype, value.fval), dt.lanes)
               [] OTHER -> Broadcast(value, dt.lanes)
        ELSE Broadcast(value, dt.lanes)

\* cast of a scalar to a vector target: cast the element, then broadcast
CastUnroll(dt, value) ==
    LET vtype == element_of(dt)
    IN  IF value.dtype # vtype
        THEN CASE value.op = "IntImm" ->
                    Broadcast(make_const(vtype, value.ival), dt.lanes)
               [] value.op = "UIntImm" -> make_const_uint64(dt, value.ival)
               [] value.op = "FloatImm" ->
                    Broadcast(make_const_double(vtype, value.fval), dt.lanes)
               [] OTHER -> Broadcast(CastNode(vtype, value), dt.lanes)
        ELSE Broadcast(value, dt.lanes)

cast(dt, value) ==
    IF IsFatal(value) THEN Fatal
    ELSE IF value.dtype = dt THEN value
    ELSE IF dt.lanes = 1 THEN CastScalar(dt, value)
    ELSE IF value.dtype.lanes = 1 THEN CastUnroll(dt, value)
    ELSE IF value.dtype.lanes = dt.lanes THEN CastNode(dt, value)
    ELSE Fatal

FatalPair == <<Fatal, Fatal>>

PairFatal(p) == IsFatal(p[1]) \/ IsFatal(p[2])

\* a pair with a failed component is the failed call
Checked(p) == IF PairFatal(p) THEN FatalPair ELSE p

\* MatchLanes with the second branch lost: a scalar right operand reaches
\* the lane check
MatchLanes_LeftOnly(lhs, rhs) ==
    LET ltype == lhs.dtype
        rtype == rhs.dtype
    IN  IF ltype.lanes = 1 /\ rtype.lanes # 1
        THEN <<Broadcast(lhs, rtype.lanes), rhs>>
        ELSE IF ltype.lanes = rtype.lanes THEN <<lhs, rhs>>
        ELSE FatalPair

\* lane reconciliation: broadcast the scalar side, or require equal lanes
MatchLanes(lhs, rhs) ==
    LET ltype == lhs.dtype
        rtype == rhs.dtype
    IN  IF ltype.lanes = 1 /\ rtype.lanes # 1
        THEN <<Broadcast(lhs, rtype.lanes), rhs>>
        ELSE IF rtype.lanes = 1 /\ ltype.lanes # 1
        THEN <<lhs, Broadcast(rhs, ltype.lanes)>>
        ELSE IF ltype.lanes = rtype.lanes THEN <<lhs, rhs>>
        ELSE FatalPair

\* PromoteSameSign with the else branch lost: the wider left operand's
\* partner is left as it is
PromoteSameSign_NoElse(lhs, rhs) ==
    IF lhs.dtype.bits < rhs.dtype.bits
    THEN <<cast(rhs.dtype, lhs), rhs>>
    ELSE <<lhs, rhs>>

\* promote int to higher bits
PromoteSameSign(lhs, rhs) ==
    IF lhs.dtype.bits < rhs.dtype.bits
    THEN <<cast(rhs.dtype, lhs), rhs>>
    ELSE <<lhs, cast(lhs.dtype, rhs)>>

Max2(m, n) == IF m < n THEN n ELSE m

\* PromoteMixedSign with std::min for std::max
PromoteMixedSign_Min(lhs, rhs) ==
    LET bits == IF lhs.dtype.bits < rhs.dtype.bits THEN lhs.dtype.bits
                ELSE rhs.dtype.bits
    IN  <<SimpleCast(IntType(bits, lhs.dtype.lanes), lhs),
          SimpleCast(IntType(bits, rhs.dtype.lanes), rhs)>>

\* int against uint: both become the signed type of the wider width
PromoteMixedSign(lhs, rhs) ==
    LET bits == Max2(lhs.dtype.bits, rhs.dtype.bits)
    IN  <<SimpleCast(IntType(bits, lhs.dtype.lanes), lhs),
          SimpleCast(IntType(bits, rhs.dtype.lanes), rhs)>>

\* PromoteKinds with the final LOG(FATAL) lost: an unmatched pair passes
PromoteKinds_NoFatal(lhs, rhs) ==
    LET lt == lhs.dtype
        rt == rhs.dtype
    IN  IF ~is_float(lt) /\ is_float(rt) THEN <<cast(rt, lhs), rhs>>
        ELSE IF is_float(lt) /\ ~is_float(rt) THEN <<lhs, cast(lt, rhs)>>
        ELSE IF (is_int(lt) /\ is_int(rt)) \/ (is_uint(lt) /\ is_uint(rt))
        THEN PromoteSameSign(lhs, rhs)
        ELSE IF (is_int(lt) /\ is_uint(rt)) \/ (is_uint(lt) /\ is_int(rt))
        THEN PromoteMixedSign(lhs, rhs)
        ELSE <<lhs, rhs>>

\* the simple type conversions applied once the lane counts agree
PromoteKinds(lhs, rhs) ==
    LET lt == lhs.dtype
        rt == rhs.dtype
    IN  IF ~is_float(lt) /\ is_float(rt) THEN <<cast(rt, lhs), rhs>>
        ELSE IF is_float(lt) /\ ~is_float(rt) THEN <<lhs, cast(lt, rhs)>>
        ELSE IF (is_int(lt) /\ is_int(rt)) \/ (is_uint(lt) /\ is_uint(rt))
        THEN PromoteSameSign(lhs, rhs)
        ELSE IF (is_int(lt) /\ is_uint(rt)) \/ (is_uint(lt) /\ is_int(rt))
        THEN PromoteMixedSign(lhs, rhs)
        ELSE FatalPair

BinaryOpMatchTypes(lhs, rhs) ==
    IF IsFatal(lhs) \/ IsFatal(rhs) THEN FatalPair
    ELSE IF lhs.dtype = rhs.dtype THEN <<lhs, rhs>>
    ELSE LET p == Checked(MatchLanes(lhs, rhs))
         IN  IF PairFatal(p) THEN FatalPair
             ELSE IF p[1].dtype = p[2].dtype THEN p
             ELSE Checked(PromoteKinds(p[1], p[2]))

---------------------------------------------------------------------------
(* Extremum resolver                                                       *)

HalfMax == 65504

\* IntMax with the decrement lost
IntMax_NoDecrement(bits) == WShl(WOne, bits - 1)

\* int64_t val = 1; val = (val << (bits - 1)) - 1
IntMax(bits) == WSub(WShl(WOne, bits - 1), WOne)

\* int64_t val = 1; val = -(val << (bits - 1))
IntMin(bits) == WNeg(WShl(WOne, bits - 1))

\* uint64_t val = 1; val = (val << bits) - 1
UIntMax(bits) == WSub(WShl(WOne, bits), WOne)

max_value(dtype) ==
    IF dtype.lanes # 1 THEN Fatal
    ELSE IF is_int(dtype) /\ dtype.bits = 64 THEN IntImm(dtype, INT64_MAX)
    ELSE IF is_int(dtype) /\ dtype.bits < 64
    THEN IntImm(dtype, IntMax(dtype.bits))
    ELSE IF is_uint(dtype) /\ dtype.bits = 64 THEN UIntImm(dtype, UINT64_MAX)
    ELSE IF is_uint(dtype) /\ dtype.bits < 64
    THEN UIntImm(dtype, UIntMax(dtype.bits))
    ELSE IF is_float(dtype) /\ dtype.bits = 64 THEN FloatImm(dtype, FDblMax(FALSE))
    ELSE IF is_float(dtype) /\ dtype.bits = 32 THEN FloatImm(dtype, FFltMax(FALSE))
    ELSE IF is_float(dtype) /\ dtype.bits = 16
    THEN FloatImm(dtype, FFin(2 * HalfMax))
    ELSE Fatal

min_value(dtype) ==
    IF dtype.lanes # 1 THEN Fatal
    ELSE IF is_int(dtype) /\ dtype.bits = 64 THEN IntImm(dtype, INT64_MIN)
    ELSE IF is_int(dtype) /\ dtype.bits < 64
    THEN IntImm(dtype, IntMin(dtype.bits))
    ELSE IF is_uint(dtype) THEN UIntImm(dtype, WZero)
    ELSE IF is_float(dtype) /\ dtype.bits = 64 THEN FloatImm(dtype, FDblMax(TRUE))
    ELSE IF is_float(dtype) /\ dtype.bits = 32 THEN FloatImm(dtype, FFltMax(TRUE))
    ELSE IF is_float(dtype) /\ dtype.bits = 16
    THEN FloatImm(dtype, FFin(-(2 * HalfMax)))
    ELSE Fatal

---------------------------------------------------------------------------
(* Constant folding (arith::TryConstFold), the engine the factories call   *)

\* int64_t x + y.  Signed overflow is undefined; the operands are run-time
\* values and every build adds the two words, so that the sum wraps.
SAdd(x, y) == WAdd(x, y)

\* int64_t -x; -INT64_MIN overflows and wraps to INT64_MIN
SNeg(x) == WNeg(x)

\* int64_t x - y; wraps on overflow as the sum does
SSub(x, y) == WSub(x, y)

\* int64_t x / y for y # 0: the quotient of the magnitudes, truncated
\* toward zero, with the sign of the pair.  INT64_MIN / -1 overflows, which
\* is undefined; the quotient of the magnitudes, 2^63, is then INT64_MIN.
TruncDivInt(x, y) ==
    IF WIsNeg(x) # WIsNeg(y) THEN WNeg(WDivMod(WAbsWord(x), WAbsWord(y))[1])
    ELSE WDivMod(WAbsWord(x), WAbsWord(y))[1]

\* int64_t x % y for y # 0: the remainder has the sign of x
TruncModInt(x, y) ==
    IF WIsNeg(x) THEN WNeg(WDivMod(WAbsWord(x), WAbsWord(y))[2])
    ELSE WDivMod(WAbsWord(x), WAbsWord(y))[2]

\* arith::floordiv's test: the truncated quotient is the floor already
IsFloorDiv(y, rmod) ==
    \/ ~WIsNeg(y) /\ ~WIsNeg(rmod)
    \/ WIsNeg(y) /\ (WIsNeg(rmod) \/ rmod = WZero)

\* arith::floordiv
FloorDivInt(x, y) ==
    IF IsFloorDiv(y, TruncModInt(x, y)) THEN TruncDivInt(x, y)
    ELSE WSub(TruncDivInt(x, y), WOne)

\* arith::floormod
FloorModInt(x, y) ==
    IF IsFloorDiv(y, TruncModInt(x, y)) THEN TruncModInt(x, y)
    ELSE WAdd(TruncModInt(x, y), y)

\* index types: scalar int32 and int64
IsIndexType(dt) == is_int(dt) /\ dt.lanes = 1 /\ dt.bits \in {32, 64}

IsInt(e) == e.op = "IntImm"

IsFlt(e) == e.op = "FloatImm"

IntIs(e, n) == IsInt(e) /\ e.ival = WFromInt(n)

\* fa->value == n on a double literal
FltIs(e, n) == IsFlt(e) /\ FEq(e.fval, FFin(2 * n))

\* the literal of a quotient or remainder w of the literals x and y, y not
\* zero.  INT64_MIN / -1 and INT64_MIN % -1 overflow, which is undefined:
\* the build whose divide instruction faults on overflow ends the process
\* there, no expression is returned; the other build yields the wrapped w.
Quotient(x, y, w) ==
    IF x.ival = INT64_MIN /\ y.ival = UINT64_MAX /\ ub = "indefinite" THEN Fatal
    ELSE IntImm(x.dtype, w)

FoldAdd(x, y) ==
    IF IsInt(x) /\ IsInt(y) THEN IntImm(x.dtype, SAdd(x.ival, y.ival))
    ELSE IF IntIs(x, 0) THEN y
    ELSE IF IntIs(y, 0) THEN x
    ELSE IF IsFlt(x) /\ IsFlt(y) THEN FloatImm(x.dtype, FAdd(x.fval, y.fval))
    ELSE IF FltIs(x, 0) THEN y
    ELSE IF FltIs(y, 0) THEN x
    ELSE Undef

FoldSub(x, y) ==
    IF IsInt(x) /\ IsInt(y) THEN IntImm(x.dtype, SSub(x.ival, y.ival))
    ELSE IF IntIs(y, 0) THEN x
    ELSE IF IsFlt(x) /\ IsFlt(y) THEN FloatImm(x.dtype, FSub(x.fval, y.fval))
    ELSE IF FltIs(y, 0) THEN x
    ELSE Undef

FoldMul(x, y) ==
    IF IsInt(x) /\ IsInt(y) THEN IntImm(x.dtype, WMul(x.ival, y.ival))
    ELSE IF IntIs(x, 1) THEN y
    ELSE IF IntIs(x, 0) THEN x
    ELSE IF IntIs(y, 1) THEN x
    ELSE IF IntIs(y, 0) THEN y
    ELSE IF IsFlt(x) /\ IsFlt(y) THEN FloatImm(x.dtype, FMul(x.fval, y.fval))
    ELSE IF FltIs(x, 1) THEN y
    ELSE IF FltIs(x, 0) THEN x
    ELSE IF FltIs(y, 1) THEN x
    ELSE IF FltIs(y, 0) THEN y
    ELSE Undef

FoldDiv(x, y) ==
    IF IsInt(x) /\ IsInt(y)
    THEN IF IntIs(y, 0) THEN Fatal
         ELSE Quotient(x, y, TruncDivInt(x.ival, y.ival))
    ELSE IF IntIs(x, 0) THEN x
    ELSE IF IntIs(y, 1) THEN x
    ELSE IF IntIs(y, 0) THEN Fatal
    ELSE IF IsFlt(x) /\ IsFlt(y) /\ ~FltIs(y, 0)
    THEN FloatImm(x.dtype, FDiv(x.fval, y.fval))
    ELSE IF FltIs(x, 0) THEN x
    ELSE IF FltIs(y, 1) THEN x
    ELSE IF FltIs(y, 0) THEN Fatal
    ELSE Undef

FoldMod(x, y) ==
    IF ~(IsIndexType(x.dtype) /\ IsIndexType(y.dtype)) THEN Undef
    ELSE IF IsInt(x) /\ IsInt(y)
    THEN IF IntIs(y, 0) THEN Fatal
         ELSE Quotient(x, y, TruncModInt(x.ival, y.ival))
    ELSE IF IntIs(x, 0) THEN x
    ELSE IF IntIs(y, 1) THEN make_zero(x.dtype)
    ELSE IF IntIs(y, 0) THEN Fatal
    ELSE Undef

FoldFloorDiv(x, y) ==
    IF IsInt(x) /\ IsInt(y)
    THEN IF IntIs(y, 0) THEN Fatal
         ELSE Quotient(x, y, FloorDivInt(x.ival, y.ival))
    ELSE IF IntIs(x, 0) THEN x
    ELSE IF IntIs(y, 1) THEN x
    ELSE IF IntIs(y, 0) THEN Fatal
    ELSE IF IsFlt(x) /\ IsFlt(y) /\ ~FltIs(y, 0)
    THEN FloatImm(x.dtype, FFloor(FDiv(x.fval, y.fval)))
    ELSE IF FltIs(x, 0) THEN x
    ELSE IF FltIs(y, 1) THEN x
    ELSE IF FltIs(y, 0) THEN Fatal
    ELSE Undef

FoldFloorMod(x, y) ==
    IF ~(IsIndexType(x.dtype) /\ IsIndexType(y.dtype)) THEN Undef
    ELSE IF IsInt(x) /\ IsInt(y)
    THEN IF IntIs(y, 0) THEN Fatal
         ELSE Quotient(x, y, FloorModInt(x.ival, y.ival))
    ELSE IF IntIs(x, 0) THEN x
    ELSE IF IntIs(y, 1) THEN make_zero(x.dtype)
    ELSE IF IntIs(y, 0) THEN Fatal
    ELSE Undef

BoolWord(p) == IF p THEN WOne ELSE WZero

FoldGE(x, y) ==
    IF IsInt(x) /\ IsInt(y)
    THEN UIntImm(BoolType(1), BoolWord(~WLtS(x.ival, y.ival)))
    ELSE IF IsFlt(x) /\ IsFlt(y)
    THEN UIntImm(BoolType(1),
                 BoolWord(FLt(y.fval, x.fval) \/ FEq(x.fval, y.fval)))
    ELSE Undef

\* the comparisons: both IntImm or both FloatImm, else declined; p and q are
\* the answers on the two words and on the two doubles
FoldCompare(x, y, p, q) ==
    IF IsInt(x) /\ IsInt(y) THEN UIntImm(BoolType(1), BoolWord(p))
    ELSE IF IsFlt(x) /\ IsFlt(y) THEN UIntImm(BoolType(1), BoolWord(q))
    ELSE Undef

FoldGT(x, y) == FoldCompare(x, y, WLtS(y.ival, x.ival), FLt(y.fval, x.fval))

FoldLT(x, y) == FoldCompare(x, y, WLtS(x.ival, y.ival), FLt(x.fval, y.fval))

FoldLE(x, y) ==
    FoldCompare(x, y, ~WLtS(y.ival, x.ival),
                FLt(x.fval, y.fval) \/ FEq(x.fval, y.fval))

FoldEQ(x, y) == FoldCompare(x, y, x.ival = y.ival, FEq(x.fval, y.fval))

FoldNE(x, y) == FoldCompare(x, y, x.ival # y.ival, ~FEq(x.fval, y.fval))

\* TryConstFold<Op>(a, b): the folded literal, a fatal divide by zero, or
\* the undefined expression when the fold declines
TryConstFold(op, x, y) ==
    CASE IsFatal(x) \/ IsFatal(y) -> Fatal
      [] ~(IsFatal(x) \/ IsFatal(y)) /\ op = "Add" -> FoldAdd(x, y)
      [] ~(IsFatal(x) \/ IsFatal(y)) /\ op = "Sub" -> FoldSub(x, y)
      [] ~(IsFatal(x) \/ IsFatal(y)) /\ op = "Div" -> FoldDiv(x, y)
      [] ~(IsFatal(x) \/ IsFatal(y)) /\ op = "Mod" -> FoldMod(x, y)
      [] ~(IsFatal(x) \/ IsFatal(y)) /\ op = "FloorDiv" -> FoldFloorDiv(x, y)
      [] ~(IsFatal(x) \/ IsFatal(y)) /\ op = "FloorMod" -> FoldFloorMod(x, y)
      [] ~(IsFatal(x) \/ IsFatal(y)) /\ op = "GE" -> FoldGE(x, y)
      [] ~(IsFatal(x) \/ IsFatal(y)) /\ op = "Mul" -> FoldMul(x, y)
      [] ~(IsFatal(x) \/ IsFatal(y)) /\ op = "GT" -> FoldGT(x, y)
      [] ~(IsFatal(x) \/ IsFatal(y)) /\ op = "LT" -> FoldLT(x, y)
      [] ~(IsFatal(x) \/ IsFatal(y)) /\ op = "LE" -> FoldLE(x, y)
      [] ~(IsFatal(x) \/ IsFatal(y)) /\ op = "EQ" -> FoldEQ(x, y)
      [] ~(IsFatal(x) \/ IsFatal(y)) /\ op = "NE" -> FoldNE(x, y)

---------------------------------------------------------------------------
(* Expression node factory                                                 *)

\* promote, fold, else build the generic node
FoldOrNode(op, p) ==
    IF PairFatal(p) THEN Fatal
    ELSE LET ret == TryConstFold(op, p[1], p[2])
         IN  IF defined(ret) THEN ret ELSE BinaryNode(op, p[1], p[2])

\* the tail of a comparison over the promoted pair p: the fold's answer if
\* it gave one, else the comparison node
FoldOrCompare(op, p) ==
    IF PairFatal(p) THEN Fatal
    ELSE LET ret == TryConstFold(op, p[1], p[2])
         IN  IF defined(ret) THEN ret ELSE CmpNode(op, p[1], p[2])

IsIntKind(e) == is_int(e.dtype) \/ is_uint(e.dtype)

\* operator-(a, b)
op_sub(x, y) == FoldOrNode("Sub", BinaryOpMatchTypes(x, y))

\* operator-(a): negation
op_neg(x) ==
    IF IsFatal(x) THEN Fatal
    ELSE IF IsInt(x) THEN IntImm(x.dtype, SNeg(x.ival))
    ELSE IF IsFlt(x) THEN FloatImm(x.dtype, FNeg(x.fval))
    ELSE op_sub(make_zero(x.dtype), x)

\* operator>=(a, b)
op_ge(x, y) == FoldOrCompare("GE", BinaryOpMatchTypes(x, y))

div(x, y) == FoldOrNode("Div", BinaryOpMatchTypes(x, y))

\* truncdiv with its two kind checks lost
truncdiv_NoCheck(x, y) == div(x, y)

truncdiv(x, y) ==
    IF IsFatal(x) \/ IsFatal(y) THEN Fatal
    ELSE IF ~IsIntKind(x) THEN Fatal
    ELSE IF ~IsIntKind(y) THEN Fatal
    ELSE div(x, y)

truncmod(x, y) == FoldOrNode("Mod", BinaryOpMatchTypes(x, y))

floordiv(x, y) ==
    IF IsFatal(x) \/ IsFatal(y) THEN Fatal
    ELSE IF ~IsIntKind(x) THEN Fatal
    ELSE IF ~IsIntKind(y) THEN Fatal
    ELSE FoldOrNode("FloorDiv", BinaryOpMatchTypes(x, y))

floormod(x, y) ==
    IF IsFatal(x) \/ IsFatal(y) THEN Fatal
    ELSE IF ~IsIntKind(x) THEN Fatal
    ELSE IF ~IsIntKind(y) THEN Fatal
    ELSE FoldOrNode("FloorMod", BinaryOpMatchTypes(x, y))

\* SelectBranch with the test inverted
SelectBranch_Inverted(cond, tv, fv) == IF cond.ival = WZero THEN tv ELSE fv

\* the branch a literal condition selects
SelectBranch(cond, tv, fv) == IF cond.ival # WZero THEN tv ELSE fv

if_then_else(cond, true_value, false_value) ==
    IF AnyFatal(<<cond, true_value, false_value>>) THEN Fatal
    ELSE IF cond.dtype # BoolType(1) THEN Fatal
    ELSE LET p == BinaryOpMatchTypes(true_value, false_value)
         IN  IF PairFatal(p) THEN Fatal
             ELSE IF cond.op \in {"UIntImm", "IntImm"}
             THEN SelectBranch(cond, p[1], p[2])
             ELSE CallNode(p[1].dtype, "tvm_if_then_else", <<cond, p[1], p[2]>>)

---------------------------------------------------------------------------
(* Elementwise math intrinsics                                             *)

pow(x, y) ==
    LET p == BinaryOpMatchTypes(x, y)
    IN  IF PairFatal(p) THEN Fatal
        ELSE IF ~is_float(p[1].dtype) THEN Fatal
        ELSE CallNode(p[1].dtype, "pow", p)

fmod(x, y) ==
    LET p == BinaryOpMatchTypes(x, y)
    IN  IF PairFatal(p) THEN Fatal
        ELSE IF ~is_float(p[1].dtype) THEN Fatal
        ELSE CallNode(p[1].dtype, "fmod", p)

\* std::abs(int64_t): the negation of a negative word, which overflows for
\* INT64_MIN and wraps to INT64_MIN
WAbs(w) == IF WIsNeg(w) THEN WNeg(w) ELSE w

abs(x) ==
    IF IsFatal(x) THEN Fatal
    ELSE IF is_int(x.dtype)
    THEN IF IsInt(x) THEN IntImm(x.dtype, WAbs(x.ival))
         ELSE SelectNode(op_ge(x, make_zero(x.dtype)), x, op_neg(x))
    ELSE IF is_float(x.dtype)
    THEN IF IsFlt(x) THEN FloatImm(x.dtype, FAbs(x.fval))
         ELSE CallNode(x.dtype, "fabs", <<x>>)
    ELSE IF is_uint(x.dtype) THEN x
    ELSE Fatal

isnan(x) ==
    IF IsFatal(x) THEN Fatal
    ELSE LET bt == BoolType(x.dtype.lanes)
         IN  IF is_int(x.dtype) \/ is_uint(x.dtype) THEN make_const(bt, WZero)
             ELSE IF is_float(x.dtype)
             THEN IF IsFlt(x) THEN make_const(bt, BoolWord(FIsNaN(x.fval)))
                  ELSE IF x.dtype.bits = 16
                  THEN CallNode(bt, "isnan", <<cast(FloatType(32, bt.lanes), x)>>)
                  ELSE CallNode(bt, "isnan", <<x>>)
             ELSE Fatal

floor(x) ==
    IF IsFatal(x) THEN Fatal
    ELSE IF IsFlt(x) THEN FloatImm(x.dtype, FFloor(x.fval))
    ELSE CallNode(x.dtype, "floor", <<x>>)

ceil(x) ==
    IF IsFatal(x) THEN Fatal
    ELSE IF IsFlt(x) THEN FloatImm(x.dtype, FCeil(x.fval))
    ELSE CallNode(x.dtype, "ceil", <<x>>)

round(x) ==
    IF IsFatal(x) THEN Fatal
    ELSE IF IsFlt(x) THEN FloatImm(x.dtype, FNearbyint(x.fval))
    ELSE CallNode(x.dtype, "round", <<x>>)

nearbyint(x) ==
    IF IsFatal(x) THEN Fatal
    ELSE IF IsFlt(x) THEN FloatImm(x.dtype, FNearbyint(x.fval))
    ELSE CallNode(x.dtype, "nearbyint", <<x>>)

trunc(x) ==
    IF IsFatal(x) THEN Fatal
    ELSE IF IsFlt(x)
    THEN FloatImm(x.dtype, IF FLt(x.fval, FZero) THEN FCeil(x.fval)
                           ELSE FFloor(x.fval))
    ELSE CallNode(x.dtype, "trunc", <<x>>)

---------------------------------------------------------------------------
(* Reduction combiner builder                                              *)

\* Array<IterVar> rdom, kept as its number of reduction axes
Axes(rdom) == Node("Axes", Handle, WFromInt(rdom), FZero, "", <<>>)

\* CommReducerNode::make({x}, {y}, {result}, {identity_element}) inside
\* ReduceNode::make(combiner, {source}, rdom, condition, value_index)
ReduceNode(lhs, rhs, result, identity, source, rdom, cond, value_index) ==
    IF AnyFatal(<<lhs, rhs, result, identity, source, cond>>) THEN Fatal
    ELSE Node("Reduce", source.dtype, WFromInt(value_index), FZero, "",
              <<lhs, rhs, result, identity, source, Axes(rdom), cond>>)

const_true == make_const(BoolType(1), WOne)

\* the template the six builders share: the combining node over two fresh
\* variables of the source's type, and the identity
BuildReduce(op, identity, source, rdom) ==
    LET x == Var("x", source.dtype)
        y == Var("y", source.dtype)
    IN  ReduceNode(x, y, BinaryNode(op, x, y), identity, source, rdom,
                   const_true, 0)

sum(source, rdom) ==
    IF IsFatal(source) THEN Fatal
    ELSE BuildReduce("Add", make_zero(source.dtype), source, rdom)

all(source, rdom) ==
    IF IsFatal(source) \/ ~is_bool(source.dtype) THEN Fatal
    ELSE BuildReduce("And", make_const(source.dtype, WOne), source, rdom)

any(source, rdom) ==
    IF IsFatal(source) \/ ~is_bool(source.dtype) THEN Fatal
    ELSE BuildReduce("Or", make_const(source.dtype, WZero), source, rdom)

max_reduce(source, rdom) ==
    IF IsFatal(source) THEN Fatal
    ELSE BuildReduce("Max", min_value(source.dtype), source, rdom)

min_reduce(source, rdom) ==
    IF IsFatal(source) THEN Fatal
    ELSE BuildReduce("Min", max_value(source.dtype), source, rdom)

prod(source, rdom) ==
    IF IsFatal(source) THEN Fatal
    ELSE BuildReduce("Mul", make_const(source.dtype, WOne), source, rdom)

ReduceIdentity(red) == red.args[4]

ReduceResult(red) == red.args[3]

---------------------------------------------------------------------------
(* Value of a combiner applied to literals                                 *)

\* the n low bits of the word
LowBits(w, n) ==
    [i \in 1..NLimbs |->
        IF LimbBits * i <= n THEN w[i]
        ELSE IF LimbBits * (i - 1) >= n THEN 0
        ELSE w[i] % Pow2(n - LimbBits * (i - 1))]

\* the word of a value stored in dt.bits bits: the low bits, sign-extended
\* for a signed type
Wrap(dt, w) ==
    IF dt.bits >= WordBits THEN w
    ELSE LET low == LowBits(w, dt.bits)
         IN  IF is_int(dt) /\ ~WLtU(low, WTimesPow2(WOne, dt.bits - 1))
             THEN WSub(low, WTimesPow2(WOne, dt.bits))
             ELSE low

\* the literal of scalar type dt a combining operator yields on literals
CombineScalar(op, dt, x, y) ==
    CASE op = "Add" /\ is_float(dt) -> FloatImm(dt, FAdd(x.fval, y.fval))
      [] op = "Add" /\ ~is_float(dt) ->
            ConstFromWord(dt, Wrap(dt, WAdd(x.ival, y.ival)))
      [] op = "Mul" /\ is_float(dt) -> FloatImm(dt, FMul(x.fval, y.fval))
      [] op = "Mul" /\ ~is_float(dt) ->
            ConstFromWord(dt, Wrap(dt, WMul(x.ival, y.ival)))
      [] op = "And" ->
            ConstFromWord(dt, BoolWord(x.ival # WZero /\ y.ival # WZero))
      [] op = "Or" ->
            ConstFromWord(dt, BoolWord(x.ival # WZero \/ y.ival # WZero))
      [] op = "Max" /\ is_float(dt) -> IF FLt(x.fval, y.fval) THEN y ELSE x
      [] op = "Max" /\ is_int(dt) -> IF WLtS(x.ival, y.ival) THEN y ELSE x
      [] op = "Max" /\ is_uint(dt) -> IF WLtU(x.ival, y.ival) THEN y ELSE x
      [] op = "Min" /\ is_float(dt) -> IF FLt(y.fval, x.fval) THEN y ELSE x
      [] op = "Min" /\ is_int(dt) -> IF WLtS(y.ival, x.ival) THEN y ELSE x
      [] op = "Min" /\ is_uint(dt) -> IF WLtU(y.ival, x.ival) THEN y ELSE x

\* the combiner of a Reduce node applied lane by lane to (x, y); a vector
\* value is a Broadcast of a literal
Combine(red, x, y) ==
    LET op == ReduceResult(red).op
        dt == red.dtype
    IN  IF dt.lanes = 1 THEN CombineScalar(op, dt, x, y)
        ELSE Broadcast(CombineScalar(op, element_of(dt), x.args[1], y.args[1]),
                       dt.lanes)

---------------------------------------------------------------------------
(* Operands offered to the factory functions                               *)

\* widest type width offered to the extremum resolver (65 is unsupported)
MaxBits == 65

\* most reduction axes offered to a reduction builder
MaxAxes == 1

Codes == {"int", "uint", "float", "handle"}

ScalarTypes ==
    {IntType(8, 1), IntType(32, 1), UIntType(8, 1), UIntType(32, 1), BoolType(1),
     FloatType(16, 1), FloatType(32, 1), Handle}

LaneCounts == {MaxLanes, 2 * MaxLanes}

VectorTypes ==
    {with_lanes(dt, n) :
        dt \in {IntType(32, 1), UIntType(8, 1), FloatType(32, 1), BoolType(1)},
        n \in LaneCounts}

OperandTypes == ScalarTypes \cup VectorTypes

\* every descriptor the extremum resolver is asked about
ExtremumTypes ==
    {DataType(code, bits, lanes) :
        code \in Codes, bits \in 0..MaxBits, lanes \in {1, MaxLanes}}

LitValues == {-MaxLit, -1, 0, 1, MaxLit}

\* doubles offered as literals, in halves: 0, 1, -1.5, 2.5, and the values
\* that are not finite
LitDoubles ==
    {FFin(0), FFin(-1), FFin(2), FFin(-3), FFin(5), FNaN, FInf(TRUE), FInf(FALSE)}

Literals ==
    {IntImm(IntType(32, 1), WFromInt(n)) : n \in LitValues}
    \cup {IntImm(IntType(8, 1), WFromInt(-MaxLit))}
    \cup {UIntImm(BoolType(1), WZero), UIntImm(BoolType(1), WOne),
          UIntImm(UIntType(8, 1), WFromInt(MaxLit))}
    \cup {FloatImm(FloatType(32, 1), f) : f \in LitDoubles}
    \cup {FloatImm(FloatType(16, 1), FFin(1))}

Variables == {Var("v", dt) : dt \in OperandTypes}

Compounds ==
    {Broadcast(IntImm(IntType(32, 1), WOne), MaxLanes),
     CastNode(IntType(8, 1), Var("v", IntType(32, 1))),
     CallNode(FloatType(16, 1), "floor", <<Var("v", FloatType(16, 1))>>)}

Operands == Literals \cup Variables \cup Compounds

Conditions ==
    {UIntImm(BoolType(1), WZero), UIntImm(BoolType(1), WOne),
     Var("p", BoolType(1)), Var("p", BoolType(MaxLanes)), Var("p", IntType(32, 1))}

\* sources of a reduction: one expression per type of interest.  The
\* builders make the identity literal of the source's type, so that the
\* types are those of the kinds a literal has.
SourceTypes ==
    {dt \in OperandTypes : dt.code # "handle"}
    \cup {IntType(64, 1), UIntType(64, 1), FloatType(64, 1), IntType(MaxBits, 1),
          UIntType(MaxBits, 1), FloatType(MaxBits, 1)}

Sources == {Var("s", dt) : dt \in SourceTypes} \cup Literals

\* max and min take their identity from min_value and max_value, which
\* decide every type themselves: their sources are of the handle kind too
SourcesOf(name) ==
    IF name \in {"max", "min"} THEN Sources \cup {Var("s", Handle)} ELSE Sources

\* the builds, told apart by what they do where the language leaves an
\* operation undefined: in one a double-to-integer conversion out of range
\* yields the "integer indefinite" word and an overflowing division faults,
\* in the other the conversion saturates and the division wraps
UBModes == {"indefinite", "saturating"}

---------------------------------------------------------------------------
(* The calls                                                               *)

Idle == call = "idle"

Record(name, x, y, cnd, dt, r1, r2) ==
    /\ call' = name
    /\ a' = x
    /\ b' = y
    /\ c' = cnd
    /\ t' = dt
    /\ ra' = r1
    /\ rb' = r2
    /\ UNCHANGED <<ub, pc, out>>

Init ==
    /\ call = "idle"
    /\ a = Undef
    /\ b = Undef
    /\ c = Undef
    /\ t = Handle
    /\ ra = Undef
    /\ rb = Undef
    /\ ub \in UBModes
    /\ pc = "idle"
    /\ out = Undef

CallMatchTypes ==
    /\ Idle
    /\ \E x \in Operands, y \in Operands :
          LET p == BinaryOpMatchTypes(x, y)
          IN  Record("match_types", x, y, Undef, Handle, p[1], p[2])

\* the targets offered to a cast of x.  A literal is re-typed by make_const,
\* which makes constants of the integer, unsigned and float types.
CastTargets(x) ==
    IF is_literal(x) THEN {dt \in OperandTypes : dt.code # "handle"}
    ELSE OperandTypes

CallCast ==
    /\ Idle
    /\ \E x \in Operands :
       \E dt \in CastTargets(x) :
          Record("cast", x, Undef, Undef, dt, cast(dt, x), Undef)

CallMaxValue ==
    /\ Idle
    /\ \E dt \in ExtremumTypes :
          Record("max_value", Undef, Undef, Undef, dt, max_value(dt), Undef)

CallMinValue ==
    /\ Idle
    /\ \E dt \in ExtremumTypes :
          Record("min_value", Undef, Undef, Undef, dt, min_value(dt), Undef)

CallIfThenElse ==
    /\ Idle
    /\ \E cnd \in Conditions, x \in Operands, y \in Operands :
          Record("if_then_else", x, y, cnd, Handle, if_then_else(cnd, x, y), Undef)

Binary(name, x, y) ==
    CASE name = "div" -> div(x, y)
      [] name = "truncdiv" -> truncdiv(x, y)
      [] name = "truncmod" -> truncmod(x, y)
      [] name = "floordiv" -> floordiv(x, y)
      [] name = "floormod" -> floormod(x, y)
      [] name = "pow" -> pow(x, y)
      [] name = "fmod" -> fmod(x, y)

DivisionNames == {"div", "truncdiv", "truncmod", "floordiv", "floormod"}

CallDivision ==
    /\ Idle
    /\ \E name \in DivisionNames, x \in Operands, y \in Operands :
          Record(name, x, y, Undef, Handle, Binary(name, x, y), Undef)

Unary(name, x) ==
    CASE name = "floor" -> floor(x)
      [] name = "ceil" -> ceil(x)
      [] name = "round" -> round(x)
      [] name = "nearbyint" -> nearbyint(x)
      [] name = "trunc" -> trunc(x)
      [] name = "abs" -> abs(x)
      [] name = "isnan" -> isnan(x)

UnaryNames == {"floor", "ceil", "round", "nearbyint", "trunc", "abs", "isnan"}

CallUnaryIntrinsic ==
    /\ Idle
    /\ \E name \in UnaryNames, x \in Operands :
          Record(name, x, Undef, Undef, Handle, Unary(name, x), Undef)

CallBinaryIntrinsic ==
    /\ Idle
    /\ \E name \in {"pow", "fmod"}, x \in Operands, y \in Operands :
          Record(name, x, y, Undef, Handle, Binary(name, x, y), Undef)

Reduction(name, source, rdom) ==
    CASE name = "sum" -> sum(source, rdom)
      [] name = "all" -> all(source, rdom)
      [] name = "any" -> any(source, rdom)
      [] name = "max" -> max_reduce(source, rdom)
      [] name = "min" -> min_reduce(source, rdom)
      [] name = "prod" -> prod(source, rdom)

ReductionNames == {"sum", "all", "any", "max", "min", "prod"}

CallReduction ==
    /\ Idle
    /\ \E name \in ReductionNames, rdom \in 1..MaxAxes :
       \E source \in SourcesOf(name) :
          Record(name, source, Undef, Undef, Handle,
                 Reduction(name, source, rdom), Undef)

\* the caller takes the result; the next call starts afresh
Return ==
    /\ ~Idle
    /\ Record("idle", Undef, Undef, Undef, Handle, Undef, Undef)

Next ==
    \/ CallMatchTypes
    \/ CallCast
    \/ CallMaxValue
    \/ CallMinValue
    \/ CallIfThenElse
    \/ CallDivision
    \/ CallUnaryIntrinsic
    \/ CallBinaryIntrinsic
    \/ CallReduction
    \/ Return

Spec == Init /\ [][Next]_vars

---------------------------------------------------------------------------
(* Properties of type promotion and cast                                   *)

Matched == call = "match_types" /\ ~IsFatal(ra)

\* C1: whenever match_types returns without a fatal error, the two
\* resulting operands have equal type descriptors (kind, bits and lanes).
C1_CommonType ==
    Matched =>
        /\ ~IsFatal(rb)
        /\ ra.dtype.code = rb.dtype.code
        /\ ra.dtype.bits = rb.dtype.bits
        /\ ra.dtype.lanes = rb.dtype.lanes

\* a promotion that both broadcast one operand and changed a kind
C1_Witness ==
    /\ Matched
    /\ a.dtype.lanes # b.dtype.lanes
    /\ a.dtype.code # b.dtype.code
    /\ a.dtype.bits # b.dtype.bits

\* one Broadcast node over e with n lanes
BroadcastOf(e, n) ==
    Node("Broadcast", DataType(e.dtype.code, e.dtype.bits, n), WZero, FZero, "",
         <<e>>)

ScalarVsVector(x, y) ==
    /\ x.dtype.lanes = 1
    /\ y.dtype.lanes > 1
    /\ element_of(y.dtype) = x.dtype

\* C2: match_types on a scalar-T and a vector-T-of-n operand, in either
\* order, yields two vector-T-of-n expressions: the scalar operand wrapped
\* in exactly one Broadcast of n lanes, the vector operand unchanged.
C2_ScalarBroadcast ==
    call = "match_types" =>
        /\ ScalarVsVector(a, b) =>
              /\ ra = BroadcastOf(a, b.dtype.lanes)
              /\ rb = b
              /\ ra.dtype = b.dtype
        /\ ScalarVsVector(b, a) =>
              /\ rb = BroadcastOf(b, a.dtype.lanes)
              /\ ra = a
              /\ rb.dtype = a.dtype

\* a scalar literal on the right of a vector of its own type
C2_Witness ==
    /\ call = "match_types"
    /\ ScalarVsVector(b, a)
    /\ is_literal(b)
    /\ rb.op = "Broadcast"

CastOf(dt, e) == Node("Cast", dt, WZero, FZero, "", <<e>>)

MixedSign(x, y) ==
    /\ x.dtype.lanes = y.dtype.lanes
    /\ \/ is_int(x.dtype) /\ is_uint(y.dtype)
       \/ is_uint(x.dtype) /\ is_int(y.dtype)

\* C3: match_types on a signed and an unsigned integer operand of equal
\* lane counts leaves both typed as the signed type of the wider width: an
\* operand already of that type is returned unchanged, the other is wrapped
\* in a cast.
C3_MixedSignedness ==
    (call = "match_types" /\ MixedSign(a, b)) =>
        LET wide == IF a.dtype.bits < b.dtype.bits THEN b.dtype.bits
                    ELSE a.dtype.bits
            target == DataType("int", wide, a.dtype.lanes)
        IN  /\ ra = (IF a.dtype = target THEN a ELSE CastOf(target, a))
            /\ rb = (IF b.dtype = target THEN b ELSE CastOf(target, b))
            /\ ra.dtype = target
            /\ rb.dtype = target

\* a narrow signed operand against a wider unsigned literal: both are cast
C3_Witness ==
    /\ call = "match_types"
    /\ MixedSign(a, b)
    /\ is_int(a.dtype)
    /\ a.dtype.bits < b.dtype.bits
    /\ ra.op = "Cast"
    /\ rb.op = "Cast"

IsBoolean(e) == e.dtype.code = "uint" /\ e.dtype.bits = 1

IsNumeric(e) == e.dtype.code \in {"int", "uint", "float"} /\ ~IsBoolean(e)

LanesReconcile(x, y) ==
    x.dtype.lanes = y.dtype.lanes \/ x.dtype.lanes = 1 \/ y.dtype.lanes = 1

\* the kinds no promotion rule of the claim covers: a boolean against a
\* numeric operand, or a handle against an integer
OutsideRules(x, y) ==
    \/ IsBoolean(x) /\ IsNumeric(y)
    \/ IsNumeric(x) /\ IsBoolean(y)
    \/ x.dtype.code = "handle" /\ y.dtype.code \in {"int", "uint"}
    \/ y.dtype.code = "handle" /\ x.dtype.code \in {"int", "uint"}

\* C4 as stated: match_types on operands whose kinds fall outside the three
\* promotion rules, in particular a boolean mixed with a numeric operand,
\* ends in a fatal type error.
C4_AsStated ==
    (call = "match_types" /\ OutsideRules(a, b)) => IsFatal(ra)

\* the pairs the code rejects once the lane counts are reconciled: two
\* floats of different widths, or two non-floats not both of integer kind
Unmatched(x, y) ==
    /\ element_of(x.dtype) # element_of(y.dtype)
    /\ \/ x.dtype.code = "float" /\ y.dtype.code = "float"
       \/ /\ x.dtype.code # "float"
          /\ y.dtype.code # "float"
          /\ ~(x.dtype.code \in {"int", "uint"} /\ y.dtype.code \in {"int", "uint"})

\* C4 (amended): with reconcilable lane counts match_types ends in a fatal
\* type error exactly for the unmatched pairs; a boolean is the 1-bit
\* unsigned integer and is promoted with a numeric operand (to the float
\* type, to the wider unsigned type, or to the signed type of the wider
\* width), never rejected.
C4_FatalKinds ==
    (call = "match_types" /\ LanesReconcile(a, b)) =>
        /\ IsFatal(ra) <=> Unmatched(a, b)
        /\ ((IsBoolean(a) /\ IsNumeric(b)) \/ (IsNumeric(a) /\ IsBoolean(b))) =>
              /\ ~IsFatal(ra)
              /\ ra.dtype = rb.dtype
              /\ ra.dtype.code =
                    (IF "float" \in {a.dtype.code, b.dtype.code} THEN "float"
                     ELSE IF "int" \in {a.dtype.code, b.dtype.code} THEN "int"
                     ELSE "uint")

\* a handle against an integer of the same lane count is rejected
C4_Witness ==
    /\ call = "match_types"
    /\ a.dtype.code = "handle"
    /\ is_int(b.dtype)
    /\ b.dtype.lanes = 1
    /\ IsFatal(ra)

\* C5: cast is idempotent: when cast(T, x) does not fail its result has
\* type T and cast(T, cast(T, x)) is structurally equal to cast(T, x).
C5_CastIdempotent ==
    (call = "cast" /\ ~IsFatal(ra)) =>
        /\ ra.dtype = t
        /\ cast(t, ra) = ra

\* a scalar that is not a literal cast to a vector type of another element
\* type: the unrolled path
C5_Witness ==
    /\ call = "cast"
    /\ ~IsFatal(ra)
    /\ t.lanes > 1
    /\ a.dtype.lanes = 1
    /\ ~is_literal(a)
    /\ a.dtype # element_of(t)
    /\ ra.op = "Broadcast"

---------------------------------------------------------------------------
(* Properties of the extremum resolver                                     *)

SignedScalar(dt) == dt.code = "int" /\ dt.lanes = 1 /\ dt.bits \in 1..WordBits

\* 2^w - 1 modulo 2^64
AllOnes(w) == WSub(WTimesPow2(WOne, w), WOne)

\* lo <= 0 <= hi as int64_t, and hi - lo = 2^w - 1 modulo 2^64
ExtremaOf(w, lo, hi) ==
    /\ lo.op = "IntImm"
    /\ hi.op = "IntImm"
    /\ ~WLtS(WZero, lo.ival)
    /\ ~WLtS(hi.ival, WZero)
    /\ WSub(hi.ival, lo.ival) = AllOnes(w)

\* C6: for every scalar signed integer type T of width w in 1..64 the
\* literals of min_value(T) and max_value(T) satisfy min <= 0 <= max and
\* max - min = 2^w - 1 modulo 2^64.
C6_SignedExtrema ==
    /\ (call = "max_value" /\ SignedScalar(t)) =>
          (ra.dtype = t /\ ExtremaOf(t.bits, min_value(t), ra))
    /\ (call = "min_value" /\ SignedScalar(t)) =>
          (ra.dtype = t /\ ExtremaOf(t.bits, ra, max_value(t)))

\* the 64-bit type, where the difference overflows the literal's word
C6_Witness ==
    /\ call = "max_value"
    /\ t = DataType("int", WordBits, 1)
    /\ ra.op = "IntImm"
    /\ WIsNeg(WSub(ra.ival, min_value(t).ival))

---------------------------------------------------------------------------
(* Properties of if_then_else                                              *)

LiteralCondition ==
    /\ call = "if_then_else"
    /\ c.op \in {"IntImm", "UIntImm"}
    /\ c.dtype = DataType("uint", 1, 1)

IsConditional(e) == e.op = "Call" /\ e.name = "tvm_if_then_else"

\* C7 as stated: with a literal scalar-boolean condition if_then_else
\* returns exactly the branch expression passed in that the literal selects.
C7_AsStated ==
    LiteralCondition => ra = (IF c.ival # WZero THEN a ELSE b)

\* C7 (amended): with a literal scalar-boolean condition if_then_else first
\* promotes the two branches to a common type, failing fatally where
\* match_types does, and then returns the selected promoted branch, never
\* a conditional node; it is the branch passed in when the two branch types
\* are already equal.
C7_LiteralCondition ==
    LiteralCondition =>
        LET p == BinaryOpMatchTypes(a, b)
        IN  /\ IsFatal(ra) <=> PairFatal(p)
            /\ ~IsFatal(ra) =>
                  /\ ra = (IF c.ival # WZero THEN p[1] ELSE p[2])
                  /\ ~IsConditional(ra)
            /\ a.dtype = b.dtype => ra = (IF c.ival # WZero THEN a ELSE b)

\* a true literal condition selects a branch that promotion has changed
C7_Witness ==
    /\ LiteralCondition
    /\ c.ival # WZero
    /\ ~IsFatal(ra)
    /\ ra # a
    /\ ra.dtype = b.dtype

---------------------------------------------------------------------------
(* Properties of the reduction builders                                    *)

WordSamples ==
    {WFromInt(n) : n \in LitValues}
    \cup {INT64_MAX, INT64_MIN, UINT64_MAX}
    \cup {AllOnes(k) : k \in {7, 8, 31, 32}}
    \cup {WNeg(WTimesPow2(WOne, k)) : k \in {7, 31}}

\* the doubles of a float type that are finite
FiniteDoubles(dt) ==
    {FFin(0), FFin(2), FFin(-3), FFin(5), FFin(2 * HalfMax), FFin(-(2 * HalfMax))}
    \cup (IF dt.bits >= 32 THEN {FFltMax(FALSE), FFltMax(TRUE)} ELSE {})
    \cup (IF dt.bits >= 64 THEN {FDblMax(FALSE), FDblMax(TRUE)} ELSE {})

OtherDoubles == {FNaN, FInf(FALSE), FInf(TRUE)}

\* literals of a scalar type: the sampled words the type's width holds,
\* the sampled doubles
ScalarValues(dt, doubles) ==
    CASE dt.code \in {"int", "uint"} ->
            {ConstFromWord(dt, w) : w \in {v \in WordSamples : Wrap(dt, v) = v}}
      [] dt.code = "float" -> {FloatImm(dt, f) : f \in doubles}
      [] OTHER -> {}

\* values of a type: literals, or broadcasts of literals for a vector
ValuesOf(dt, doubles) ==
    IF dt.lanes = 1 THEN ScalarValues(dt, doubles)
    ELSE {Broadcast(v, dt.lanes) : v \in ScalarValues(element_of(dt), doubles)}

FiniteValues(dt) == ValuesOf(dt, FiniteDoubles(dt))

AllValues(dt) == ValuesOf(dt, FiniteDoubles(dt) \cup OtherDoubles)

Reduced == call \in ReductionNames /\ ~IsFatal(ra)

\* C8: the identity stored in a built reducer is neutral for its combining
\* operator on every value of the source type.
C8_AsStated ==
    Reduced =>
        \A x \in AllValues(ra.dtype) : Combine(ra, x, ReduceIdentity(ra)) = x

\* the identity is neutral on every integer, unsigned and boolean value and
\* on every finite float value: what C8_AsStated loses is confined to the
\* infinity below the finite lowest (max) or above the finite highest (min)
NeutralOnFiniteValues ==
    Reduced =>
        \A x \in FiniteValues(ra.dtype) : Combine(ra, x, ReduceIdentity(ra)) = x

---------------------------------------------------------------------------
(* Properties of the division family                                       *)

IntegerKind(e) == e.dtype.code \in {"int", "uint"}

NonIntegerOperand == ~IntegerKind(a) \/ ~IntegerKind(b)

\* C9 as stated: each of div, truncdiv, truncmod, floordiv and floormod
\* called with an operand of non-integer kind ends in a fatal type error.
C9_AsStated ==
    (call \in DivisionNames /\ NonIntegerOperand) => IsFatal(ra)

\* C9 (amended): truncdiv, floordiv and floormod called with an operand of
\* non-integer kind end in a fatal type error; div and truncmod make no
\* such check: operands that promote to a common type and are not literals
\* yield the Div, respectively Mod, node over the promoted operands.
C9_IntegerOnly ==
    /\ (call \in {"truncdiv", "floordiv", "floormod"} /\ NonIntegerOperand) =>
          IsFatal(ra)
    /\ (call \in {"div", "truncmod"} /\ NonIntegerOperand) =>
          LET p == BinaryOpMatchTypes(a, b)
          IN  (~PairFatal(p) /\ ~is_literal(p[1]) /\ ~is_literal(p[2])) =>
                 /\ ra.op = (IF call = "div" THEN "Div" ELSE "Mod")
                 /\ ra.args = p
                 /\ ra.dtype = p[1].dtype

\* truncdiv rejecting a Float32 operand
C9_Witness ==
    /\ call = "truncdiv"
    /\ a.dtype = DataType("float", 32, 1)
    /\ IntegerKind(b)
    /\ IsFatal(ra)

---------------------------------------------------------------------------
(* Properties of the math intrinsics                                       *)

RoundingNames == {"floor", "ceil", "round", "nearbyint", "trunc"}

IsFloatLiteral(e) == e.op = "FloatImm" /\ e.dtype.code = "float"

\* a call of a unary intrinsic on a literal of its kind
UnaryOnLiteral ==
    \/ call \in RoundingNames /\ IsFloatLiteral(a)
    \/ call \in {"abs", "isnan"} /\ is_literal(a)

\* a call of pow or fmod on two float literals of one type
BinaryOnLiterals ==
    /\ call \in {"pow", "fmod"}
    /\ IsFloatLiteral(a)
    /\ IsFloatLiteral(b)
    /\ a.dtype = b.dtype

\* C10 as stated: each of floor, ceil, round, nearbyint, trunc, fmod, pow,
\* abs and isnan called on literals of the matching kind returns a literal.
C10_AsStated ==
    (UnaryOnLiteral \/ BinaryOnLiterals) => is_literal(ra)

\* the halves of x rounded down, up, and to the nearest integer (ties to
\* the even one)
DownHalves(h) == h - (h % 2)

UpHalves(h) == h + (h % 2)

NearestHalves(h) ==
    IF h % 2 = 0 THEN h ELSE IF (h - 1) % 4 = 0 THEN h - 1 ELSE h + 1

\* the number of a small natural
RECURSIVE NNumber(_)
NNumber(n) == IF Len(n) = 0 THEN 0 ELSE n[1] + Base * NNumber(Tail(n))

\* the doubles that are a small number of halves, and that number
InHalves(x) == x.cls = "fin" /\ x.exp >= -1 /\ FTop(x) < 3 * LimbBits

Halves(x) ==
    IF x.neg THEN -NNumber(NShl(x.man, x.exp + 1))
    ELSE NNumber(NShl(x.man, x.exp + 1))

HalvesRounded(name, h) ==
    CASE name = "floor" -> DownHalves(h)
      [] name = "ceil" -> UpHalves(h)
      [] name \in {"round", "nearbyint"} -> NearestHalves(h)
      [] name = "trunc" -> IF h < 0 THEN UpHalves(h) ELSE DownHalves(h)

\* the integer of r halves, r even, with the sign bit neg
WholeOfHalves(neg, r) == FInteger(neg, NFromInt((IF r < 0 THEN -r ELSE r) \div 2))

\* the result of a rounding intrinsic on the double x, a number of halves
\* when finite: the rounded value, with the sign bit of x
Rounded(name, x) ==
    IF x.cls # "fin" THEN x
    ELSE WholeOfHalves(x.neg, HalvesRounded(name, Halves(x)))

\* what the intrinsics do on literals: floor, ceil, round, nearbyint and
\* trunc on a float literal (here a number of halves, an infinity or a NaN)
\* return the float literal of the rounded value; abs on a literal
\* returns the literal of its magnitude (an unsigned literal itself); isnan
\* on a literal returns a scalar boolean literal; pow and fmod never fold:
\* on two float literals of one type they return the intrinsic call node
\* over the two operands.
C10_LiteralFolds ==
    /\ (call \in RoundingNames /\ IsFloatLiteral(a)) =>
          /\ ra.op = "FloatImm"
          /\ ra.dtype = a.dtype
          /\ (FIsFinite(a.fval) => InHalves(a.fval))
          /\ ra.fval = Rounded(call, a.fval)
    /\ (call = "abs" /\ is_literal(a)) =>
          /\ ra.op = a.op
          /\ ra.dtype = a.dtype
          /\ a.op = "FloatImm" => ra.fval = [a.fval EXCEPT !.neg = FALSE]
          /\ (a.op = "IntImm" /\ a.ival # INT64_MIN) =>
                (~WIsNeg(ra.ival) /\ ra.ival \in {a.ival, WNeg(a.ival)})
          /\ a.op = "UIntImm" => ra = a
    /\ (call = "isnan" /\ is_literal(a)) =>
          /\ ra.op = "UIntImm"
          /\ ra.dtype = DataType("uint", 1, 1)
          /\ ra.ival = (IF a.op = "FloatImm" /\ a.fval.cls = "nan" THEN WOne
                        ELSE WZero)
    /\ BinaryOnLiterals =>
          /\ ra.op = "Call"
          /\ ra.name = call
          /\ ra.dtype = a.dtype
          /\ ra.args = <<a, b>>

\* trunc folding a negative literal with a fractional part
C10_Witness ==
    /\ call = "trunc"
    /\ IsFloatLiteral(a)
    /\ a.fval.neg
    /\ a.fval.exp < 0
    /\ ra.op = "FloatImm"
    /\ ra.fval # a.fval

---------------------------------------------------------------------------
(* The binary factories, followed statement by statement                   *)

ArithmeticNames == {"add", "sub", "mul", "div", "truncmod", "floordiv", "floormod"}

ComparisonNames == {"gt", "ge", "lt", "le", "eq", "ne"}

FactoryNames == ArithmeticNames \cup ComparisonNames

\* the factories that CHECK the operand kinds before anything else
KindChecked == {"floordiv", "floormod"}

\* the node type a factory folds and builds
FactoryOp(name) ==
    CASE name = "add" -> "Add"
      [] name = "sub" -> "Sub"
      [] name = "mul" -> "Mul"
      [] name = "div" -> "Div"
      [] name = "truncmod" -> "Mod"
      [] name = "floordiv" -> "FloorDiv"
      [] name = "floormod" -> "FloorMod"
      [] name = "gt" -> "GT"
      [] name = "ge" -> "GE"
      [] name = "lt" -> "LT"
      [] name = "le" -> "LE"
      [] name = "eq" -> "EQ"
      [] name = "ne" -> "NE"

\* ir::<Op>Node::make(a, b)
GenericNode(name, x, y) ==
    IF name \in ComparisonNames THEN CmpNode(FactoryOp(name), x, y)
    ELSE BinaryNode(FactoryOp(name), x, y)

\* PromoteStep left out: the parameters stay as passed
PromoteStep_Skipped(x, y) == <<x, y>>

\* BinaryOpMatchTypes(a, b) on the factory's two by-value parameters
PromoteStep(x, y) == BinaryOpMatchTypes(x, y)

\* the call: the arguments are copied into the parameters
Enter ==
    /\ pc = "idle"
    /\ Idle
    /\ \E name \in FactoryNames, x \in Operands, y \in Operands :
          /\ call' = name
          /\ a' = x
          /\ b' = y
          /\ ra' = x
          /\ rb' = y
    /\ pc' = "entered"
    /\ UNCHANGED <<c, t, ub, out>>

\* CHECK(a.dtype().is_int() || a.dtype().is_uint()), and the same for b
KindCheck ==
    /\ pc = "entered"
    /\ call \in KindChecked
    /\ pc' = IF IsIntKind(ra) /\ IsIntKind(rb) THEN "checked" ELSE "fatal"
    /\ UNCHANGED <<call, a, b, c, t, ra, rb, ub, out>>

\* BinaryOpMatchTypes(a, b): the parameters are promoted in place
Promote ==
    /\ pc = (IF call \in KindChecked THEN "checked" ELSE "entered")
    /\ LET p == PromoteStep(ra, rb)
       IN  /\ ra' = p[1]
           /\ rb' = p[2]
           /\ pc' = IF PairFatal(p) THEN "fatal" ELSE "promoted"
    /\ UNCHANGED <<call, a, b, c, t, ub, out>>

\* PrimExpr ret = arith::TryConstFold<Op>(a, b)
Fold ==
    /\ pc = "promoted"
    /\ LET r == TryConstFold(FactoryOp(call), ra, rb)
       IN  /\ out' = r
           /\ pc' = IF IsFatal(r) THEN "fatal" ELSE "folded"
    /\ UNCHANGED <<call, a, b, c, t, ra, rb, ub>>

\* if (ret.defined()) return ret
ReturnFolded ==
    /\ pc = "folded"
    /\ defined(out)
    /\ pc' = "returned"
    /\ UNCHANGED <<call, a, b, c, t, ra, rb, ub, out>>

\* return ir::<Op>Node::make(a, b)
Build ==
    /\ pc = "folded"
    /\ ~defined(out)
    /\ LET n == GenericNode(call, ra, rb)
       IN  /\ out' = n
           /\ pc' = IF IsFatal(n) THEN "fatal" ELSE "built"
    /\ UNCHANGED <<call, a, b, c, t, ra, rb, ub>>

\* the caller has the result, or the fatal error has unwound the call
Leave ==
    /\ pc \in {"returned", "built", "fatal"}
    /\ call' = "idle"
    /\ a' = Undef
    /\ b' = Undef
    /\ ra' = Undef
    /\ rb' = Undef
    /\ out' = Undef
    /\ pc' = "idle"
    /\ UNCHANGED <<c, t, ub>>

FactoryNext ==
    \/ Enter
    \/ KindCheck
    \/ Promote
    \/ Fold
    \/ ReturnFolded
    \/ Build
    \/ Leave

FactorySpec == Init /\ [][FactoryNext]_vars

---------------------------------------------------------------------------
(* Properties of the order of steps inside a binary factory                *)

\* the step completes type promotion: it is taken before any fold, and
\* leaves the parameters as the promotion of the arguments
PromotionCompletes ==
    pc' = "promoted" =>
        /\ pc \in {"entered", "checked"}
        /\ out = Undef
        /\ out' = Undef
        /\ <<ra', rb'>> = BinaryOpMatchTypes(a, b)
        /\ ~PairFatal(<<ra', rb'>>)

\* the fold's answer is written only by the fold, which follows a promotion
\* that succeeded and is given the promoted operands
FoldAfterPromotion ==
    (pc' = "folded" \/ (pc' = "fatal" /\ out' # out)) =>
        /\ pc = "promoted"
        /\ <<ra, rb>> = BinaryOpMatchTypes(a, b)
        /\ ~PairFatal(<<ra, rb>>)
        /\ out' = TryConstFold(FactoryOp(call), ra, rb)
        /\ UNCHANGED <<ra, rb>>

\* the generic node is built exactly when the fold declined, over the
\* promoted operands; a fold that answered is what is returned
NodeIffDeclined ==
    /\ pc' = "built" <=> (pc = "folded" /\ ~defined(out))
    /\ pc' = "built" =>
          /\ out' = GenericNode(call, ra, rb)
          /\ out'.args = <<ra, rb>>
          /\ <<ra, rb>> = BinaryOpMatchTypes(a, b)
    /\ pc' = "returned" <=> (pc = "folded" /\ defined(out))
    /\ pc' = "returned" => out' = out

\* a fatal promotion ends the call: no fold was attempted, no node is built
FatalPromotionEnds ==
    /\ (pc' = "fatal" /\ IsFatal(ra')) => out' = Undef
    /\ pc = "fatal" => (pc' = "idle" /\ out' = Undef)

\* C11: in every arithmetic and comparison factory type promotion
\* completes first, the fold is attempted only after promotion succeeded
\* and on the promoted operands, the generic node over the promoted operands
\* is built if and only if the fold declined, and after a fatal promotion
\* neither a fold attempt nor a node construction happens.
C11_StepOrder ==
    [][/\ PromotionCompletes
       /\ FoldAfterPromotion
       /\ NodeIffDeclined
       /\ FatalPromotionEnds]_vars

\* add on operands of two types: the node was built, after a declined fold,
\* over operands that promotion has changed
C11_Witness ==
    /\ pc = "built"
    /\ call = "add"
    /\ a.dtype # b.dtype
    /\ out.op = "Add"
    /\ out.args = <<ra, rb>>
    /\ <<ra, rb>> # <<a, b>>

---------------------------------------------------------------------------
(* Properties of the reduction builders' failures                          *)

\* the types min_value rejects: a handle, a signed integer wider than the
\* literal's word, a float of a width other than 16, 32 and 64
NoLowest(dt) ==
    \/ dt.code = "handle"
    \/ dt.code = "int" /\ dt.bits > WordBits
    \/ dt.code = "float" /\ dt.bits \notin {16, 32, 64}

\* the types max_value rejects: those, and an unsigned integer wider than
\* the literal's word
NoHighest(dt) == NoLowest(dt) \/ (dt.code = "uint" /\ dt.bits > WordBits)

\* a source the max and min builders cannot take: a vector, or a type
\* without the extremum the builder stores as its identity
NoIdentity == a.dtype.lanes > 1 \/ NoHighest(a.dtype)

IsReduce(e) == e.op = "Reduce"

C12_Exact ==
    /\ (call = "max" /\ ~IsFatal(ra)) =>
          (IsReduce(ra) /\ ~(a.dtype.lanes > 1 \/ NoLowest(a.dtype)))
    /\ (call = "min" /\ ~IsFatal(ra)) =>
          (IsReduce(ra) /\ ~(a.dtype.lanes > 1 \/ NoHighest(a.dtype)))
    /\ call \in {"sum", "prod"} => IsReduce(ra)

============================================================================
